---- MODULE Spec2Model ----
(***************************************************************************)
(* State-machine model of the price-prediction pipeline of                 *)
(* src/src/models/train_predictor.py (class StockPricePredictor): the row  *)
(* store it reads, one predictor instance, the checkpoint files it writes  *)
(* and loads, and the epoch loop of train.  Around it: the collector and   *)
(* its technical indicators (collect_data.py), the database access layer   *)
(* (db_manager.py), and the serving side (ml_service.py, main.py).  Spec   *)
(* is the trainer; the other specifications of the module each exercise    *)
(* one component, or one function on every small input, over the same      *)
(* variables.                                                              *)
(*                                                                         *)
(* Numbers are exact: a MinMaxScaler output is the fraction <<n, d>>       *)
(* (n / d, d > 0), so that scaling and its inverse are computed, not       *)
(* assumed.  The network itself is a black box: its weights are named by   *)
(* the training run that initialised them and the number of optimizer      *)
(* steps applied since, and its outputs are drawn from a small set.        *)
(***************************************************************************)
EXTENDS Integers, Sequences, FiniteSets, TLC

(* ------------------------------ bounds -------------------------------- *)
\* rows the store can hold per symbol
MaxRows == 4
\* sequence_length of the predictor (constructor argument, default 60)
SeqLen == 2
\* largest epochs argument given to train
MaxEpochs == 3
\* validation losses are drawn from 1..MaxLoss
MaxLoss == 2
\* train calls that reach model initialisation in one behaviour
MaxRuns == 2
\* largest batch_size argument given to train
MaxBatch == 2
\* the epochs argument of the one long training run
LongEpochs == 13
\* most windows handed to the train/validation split on its own
MaxWindows == 20
\* most rows of a table handed to the filling of missing values on its own
MaxFillRows == 4
\* most rows of a price history handed to the indicators
MaxCloses == 21
\* most changes of direction (up, level, down) in such a history
MaxTurns == 1

Symbols == {"A", "B"}
\* val_split arguments, in percent (0.2 is the default), strictly between
\* 0 and 1: a non-empty window set then has a non-empty validation tail
ValSplits == {20, 50}
\* raw network outputs (scaled units), as fractions: -9/2, -1/2, 1/2, 3/2.
\* The last layer of the network is linear, so no output is excluded
Outputs == {<<0 - 9, 2>>, <<0 - 1, 2>>, <<1, 2>>, <<3, 2>>}

\* float('inf'): above every validation loss
Inf == MaxLoss + 1
\* a missing value (SQL NULL / NaN); every value of the feed is >= 0
NaN == 0 - 1

(* ----------------------- the row source (database) --------------------- *)
\* the close price the market-data feed gives symbol s on day d
FeedClose(s, d) ==
    IF s = "A" THEN 10 + ((5 * d) % 7) ELSE 100 + 10 * ((3 * d) % 7)

\* the stock_prices row (joined with the sentiment aggregate) of symbol s
\* on day d, as the query of fetch_training_data selects it: rolling
\* indicators are NULL on their first rows, rsi is NULL on one day in the
\* middle of the series, and COALESCE leaves the sentiment aggregate at 0
FeedRow(s, d) ==
    LET c == FeedClose(s, d) IN
    [price_date |-> d, open_price |-> c - 1, high_price |-> c + 2,
     low_price |-> c - 2, close_price |-> c, volume |-> 1000 + d,
     sma_20 |-> IF d < 2 THEN NaN ELSE c + 1,
     sma_50 |-> IF d < 3 THEN NaN ELSE c + 2,
     ema_12 |-> c, ema_26 |-> c, rsi |-> IF d = 3 THEN NaN ELSE 40 + d,
     macd |-> 0, macd_signal |-> 0, sentiment_score |-> 0]

\* a sequence built element by element, held as an array in memory
Array(f) == SubSeq(f, 1, Len(f))
\* one row of a table, held as a record of its columns
Row(f) == f @@ <<>>

RECURSIVE OrderByDate(_)
\* ORDER BY sp.price_date ASC
OrderByDate(rows) ==
    IF rows = {} THEN <<>>
    ELSE LET first == CHOOSE r \in rows :
                        \A o \in rows : r.price_date <= o.price_date
         IN <<first>> \o OrderByDate(rows \ {first})

\* DataFrame.ffill(): a missing cell takes the nearest earlier valid value
\* of its column, and stays missing when there is none
ffill(df) ==
    Array([i \in 1..Len(df) |->
        Row([c \in DOMAIN df[i] |->
            IF df[i][c] # NaN THEN df[i][c]
            ELSE LET prior == {j \in 1..(i - 1) : df[j][c] # NaN}
                 IN IF prior = {} THEN NaN
                    ELSE df[CHOOSE j \in prior : \A k \in prior : k <= j][c]])])

\* DataFrame.fillna(v): every cell still missing becomes v
fillna(df, v) ==
    Array([i \in 1..Len(df) |->
        Row([c \in DOMAIN df[i] |-> IF df[i][c] = NaN THEN v ELSE df[i][c]])])

\* line 186 with the two fills in the other order
fill_missing_zero_first(df) == ffill(fillna(df, 0))

\* line 186 of fetch_training_data: df.ffill().fillna(0)
fill_missing(df) == fillna(ffill(df), 0)

\* fetch_training_data(symbol) on the store db: the symbol's rows ordered
\* by date, filled; the empty table when the symbol has no rows
fetch_training_data(store, symbol) ==
    LET df == OrderByDate(store[symbol])
    IN IF df = <<>> THEN df ELSE fill_missing(df)

(* --------------------------- MinMaxScaler ------------------------------ *)
\* MinMaxScaler(): not fitted
NewScaler == [fitted |-> FALSE, data_min |-> <<>>, data_max |-> <<>>]

SeqMin(values) == CHOOSE m \in values : \A v \in values : m <= v
SeqMax(values) == CHOOSE m \in values : \A v \in values : v <= m

\* MinMaxScaler.fit(matrix): per column, the minimum and maximum seen
Fit(matrix) ==
    LET width == Len(matrix[1])
        col(k) == {matrix[i][k] : i \in 1..Len(matrix)}
    IN [fitted |-> TRUE,
        data_min |-> Array([k \in 1..width |-> SeqMin(col(k))]),
        data_max |-> Array([k \in 1..width |-> SeqMax(col(k))])]

\* sklearn's _handle_zeros_in_scale: a constant column is scaled by 1
DataRange(scaler, k) ==
    IF scaler.data_max[k] = scaler.data_min[k] THEN 1
    ELSE scaler.data_max[k] - scaler.data_min[k]

\* MinMaxScaler.transform(matrix): (x - data_min) / data_range per column
Transform(scaler, matrix) ==
    Array([i \in 1..Len(matrix) |->
        Array([k \in 1..Len(matrix[i]) |->
            <<matrix[i][k] - scaler.data_min[k], DataRange(scaler, k)>>])])

\* MinMaxScaler.inverse_transform of one scaled value q = <<n, d>> of
\* column k: q * data_range + data_min
InverseTransform(scaler, k, q) ==
    <<q[1] * DataRange(scaler, k) + scaler.data_min[k] * q[2], q[2]>>

(* ------------------- prices with a confidence band --------------------- *)
RECURSIVE Sum(_)
Sum(values) ==
    IF values = <<>> THEN 0 ELSE values[1] + Sum(SubSeq(values, 2, Len(values)))

\* Series.std() of pandas (ddof = 1) on a column of integers, kept exact by
\* its square: the mean m = total / n, then sum((x - m)^2) / (n - 1), here
\* with every term over n^2.  One value alone has no deviation: NaN
std(values) ==
    LET n == Len(values)
        total == Sum(values)
    IN IF n < 2 THEN [nan |-> TRUE, sq |-> <<0, 1>>]
       ELSE [nan |-> FALSE,
             sq |-> <<Sum([i \in 1..n |-> (n * values[i] - total)
                                             * (n * values[i] - total)]),
                      n * n * (n - 1)>>]

\* a float of the form rat + coef * sqrt(sq), rat, coef and sq fractions;
\* nan when it is NaN
Exact(q) == [nan |-> FALSE, rat |-> q, coef |-> <<0, 1>>, sq |-> <<0, 1>>]

\* line 425 with the sign of line 426
confidence_lower_added(prediction, sd) ==
    [nan |-> sd.nan, rat |-> prediction, coef |-> <<196, 100>>, sq |-> sd.sq]

\* line 425 of predict: prediction - 1.96 * std
confidence_lower(prediction, sd) ==
    [nan |-> sd.nan, rat |-> prediction, coef |-> <<0 - 196, 100>>,
     sq |-> sd.sq]

\* line 426 of predict: prediction + 1.96 * std
confidence_upper(prediction, sd) ==
    [nan |-> sd.nan, rat |-> prediction, coef |-> <<196, 100>>, sq |-> sd.sq]

(* ---------------------------- the predictor ---------------------------- *)
\* self.feature_columns as set by __init__
DefaultFeatureColumns ==
    <<"open_price", "high_price", "low_price", "close_price", "volume",
      "sma_20", "sma_50", "ema_12", "ema_26", "rsi",
      "macd", "macd_signal", "sentiment_score">>

\* self.model = None.  A network is named by the run that initialised it
\* (run >= 1), the optimizer steps applied since, and its input width
NoModel == [run |-> 0, steps |-> 0, input_size |-> 0]

\* df[columns].values: the rows as vectors, in the order of columns
Values(df, columns) ==
    Array([i \in 1..Len(df) |-> Array([k \in 1..Len(columns) |-> df[i][columns[k]]])])

\* prepare_sequences with the label read one row early: target_scaled[i - 1]
\* in place of target_scaled[i]
prepare_sequences_label_early(feature_columns, L, df) ==
    LET features == Values(df, feature_columns)
        target   == Values(df, <<"close_price">>)
        sf == Fit(features)
        st == Fit(target)
        features_scaled == Transform(sf, features)
        target_scaled   == Transform(st, target)
        n == IF Len(df) > L THEN Len(df) - L ELSE 0
    IN [scaler_features |-> sf,
        scaler_target |-> st,
        X |-> Array([k \in 1..n |-> LET i == L + k - 1
                              IN SubSeq(features_scaled, i - L + 1, i)]),
        y |-> Array([k \in 1..n |-> LET i == L + k - 1
                              IN target_scaled[i]])]

\* prepare_sequences(df) on a predictor with the given feature columns and
\* sequence length: refits both scalers on the whole table, then slides a
\* window of L rows; i is the 0-based loop index of the source
prepare_sequences(feature_columns, L, df) ==
    LET features == Values(df, feature_columns)
        target   == Values(df, <<"close_price">>)
        sf == Fit(features)
        st == Fit(target)
        features_scaled == Transform(sf, features)
        target_scaled   == Transform(st, target)
        n == IF Len(df) > L THEN Len(df) - L ELSE 0
    IN [scaler_features |-> sf,
        scaler_target |-> st,
        X |-> Array([k \in 1..n |-> LET i == L + k - 1
                              IN SubSeq(features_scaled, i - L + 1, i)]),
        y |-> Array([k \in 1..n |-> LET i == L + k - 1
                              IN target_scaled[i + 1]])]


\* the path train saves to: f"models/{symbol}_price_model.pth"
ModelPath(symbol) == "models/" \o symbol \o "_price_model.pth"

\* the dictionary _save_model hands to torch.save
_save_model(m, sf, st, columns) ==
    [model_state_dict |-> m, scaler_features |-> sf,
     scaler_target |-> st, feature_columns |-> columns]

\* _load_model with the two scalers restored into each other's field
_load_model_scalers_swapped(checkpoint) ==
    [scaler_features |-> checkpoint.scaler_target,
     scaler_target |-> checkpoint.scaler_features,
     feature_columns |-> checkpoint.feature_columns,
     model |-> [run |-> checkpoint.model_state_dict.run,
                steps |-> checkpoint.model_state_dict.steps,
                input_size |-> Len(checkpoint.feature_columns)]]

\* _load_model: the instance fields restored from a checkpoint; the
\* network is rebuilt with input_size = len(feature_columns) and takes the
\* stored weights
_load_model(checkpoint) ==
    [scaler_features |-> checkpoint.scaler_features,
     scaler_target |-> checkpoint.scaler_target,
     feature_columns |-> checkpoint.feature_columns,
     model |-> [run |-> checkpoint.model_state_dict.run,
                steps |-> checkpoint.model_state_dict.steps,
                input_size |-> Len(checkpoint.feature_columns)]]

\* predict without its first check
model_is_none_unchecked(m) == FALSE

\* line 394 of predict: no network yet
model_is_none(m) == m = NoModel

\* the row check of predict off by one: <= in place of <
not_enough_data_inclusive(df, L) == Len(df) <= L

\* line 405 of predict: fewer rows than one window
not_enough_data(df, L) == Len(df) < L

\* predict calling fit_transform in place of transform
predict_scale_refit(scaler, features) ==
    [scaler |-> Fit(features), scaled |-> Transform(Fit(features), features)]

\* line 410 of predict, self.scaler_features.transform(features): the
\* scaler after the call and the scaled matrix
predict_scale(scaler, features) ==
    [scaler |-> scaler, scaled |-> Transform(scaler, features)]

\* the save condition with <= in place of <
improved_or_equal(val_loss, best_val_loss) == val_loss <= best_val_loss

\* line 332 of train: validation loss strictly below the best so far
improved(val_loss, best_val_loss) == val_loss < best_val_loss

\* the learning_rate argument of train (default 0.001), as a fraction
DefaultLearningRate == <<1, 1000>>

\* ReduceLROnPlateau(optimizer, mode='min', factor=0.5, patience=5)
patience == 5
\* threshold = 1e-4 (relative) and eps = 1e-8, the defaults of the
\* scheduler, as the denominators of 1/10000 and 1/100000000
ThresholdInv == 10000
EpsInv == 100000000

\* the scheduler as constructed: mode 'min' starts from best = inf
NewScheduler == [best |-> Inf, num_bad_epochs |-> 0]

\* is_better of the scheduler, mode 'min', threshold_mode 'rel':
\* a < best * (1 - threshold)
is_better(a, best) == a * ThresholdInv < best * (ThresholdInv - 1)

\* _reduce_lr: new_lr = max(old_lr * factor, min_lr) with min_lr = 0,
\* applied only when old_lr - new_lr > eps
reduce_lr(lr) ==
    LET new_lr == <<lr[1], 2 * lr[2]>>
    IN IF lr[1] * EpsInv > new_lr[2] THEN new_lr ELSE lr

\* the scheduler reducing as soon as the bad epochs reach patience
scheduler_step_at_patience(scheduler, lr, metrics) ==
    LET better == is_better(metrics, scheduler.best)
        best == IF better THEN metrics ELSE scheduler.best
        bad == IF better THEN 0 ELSE scheduler.num_bad_epochs + 1
    IN IF bad >= patience
       THEN [scheduler |-> [best |-> best, num_bad_epochs |-> 0],
             lr |-> reduce_lr(lr)]
       ELSE [scheduler |-> [best |-> best, num_bad_epochs |-> bad],
             lr |-> lr]

\* scheduler.step(val_loss), line 326 (cooldown = 0): the scheduler and the
\* optimizer's learning rate after the call
scheduler_step(scheduler, lr, metrics) ==
    LET better == is_better(metrics, scheduler.best)
        best == IF better THEN metrics ELSE scheduler.best
        bad == IF better THEN 0 ELSE scheduler.num_bad_epochs + 1
    IN IF bad > patience
       THEN [scheduler |-> [best |-> best, num_bad_epochs |-> 0],
             lr |-> reduce_lr(lr)]
       ELSE [scheduler |-> [best |-> best, num_bad_epochs |-> bad],
             lr |-> lr]

\* val_split arguments in percent for the split on its own
SplitPercents == {10, 20, 25, 50, 80, 90}

\* the val_split values among them whose double 1 - val_split lies below
\* the real number: 1 - 0.8 = 0.19999999999999996 and
\* 1 - 0.9 = 0.09999999999999998
FloatBelow == {80, 90}

\* line 257 of train: int(len(X) * (1 - val_split)), val_split in percent.
\* The product is a double: where 1 - val_split lies below the real number
\* and the real product is a whole number, the double product lies below
\* that number and int() gives the one before it
split_idx(n, val_percent) ==
    IF val_percent \in FloatBelow /\ n > 0
          /\ (n * (100 - val_percent)) % 100 = 0
    THEN (n * (100 - val_percent)) \div 100 - 1
    ELSE (n * (100 - val_percent)) \div 100

\* lines 257-259 of train: the windows and labels cut in two at split_idx
train_val_split(X, y, val_percent) ==
    LET cut == split_idx(Len(X), val_percent)
    IN [X_train |-> SubSeq(X, 1, cut), X_val |-> SubSeq(X, cut + 1, Len(X)),
        y_train |-> SubSeq(y, 1, cut), y_val |-> SubSeq(y, cut + 1, Len(y))]

\* _calculate_metrics(X, y_true): the metrics are those of the network m
\* evaluated on the len(X) given windows
_calculate_metrics(m, X) == [weights |-> m, samples |-> Len(X)]

(* ------------------------------- state --------------------------------- *)
VARIABLES
    db,               \* stock_prices: symbol -> set of rows
    files,            \* the checkpoint files: path -> saved dictionary
    scaler_features,  \* self.scaler_features
    scaler_target,    \* self.scaler_target
    model,            \* self.model
    feature_columns,  \* self.feature_columns
    pc,               \* "idle", or "epoch" while train is in its loop
    tr,               \* the local variables of the running train call
    runs,             \* networks initialised so far
    last,             \* the outcome of the last finished call
    service,          \* the serving process (MLPredictionService)
    frame,            \* the call of a function on its own: arguments, result
    manager           \* the DatabaseManager, its pool and the committed data

vars == <<db, files, scaler_features, scaler_target, model, feature_columns,
          pc, tr, runs, last, service, frame, manager>>

self == <<scaler_features, scaler_target, model, feature_columns>>

\* self.symbols of MLPredictionService, in the order load_models visits
\* them
service_symbols == <<"A", "B">>

\* get_prediction has not been called: symbol is its argument, returned
\* says whether it gave None or a dictionary (value), raised names an
\* exception that left it, inner is how predictor.predict ended when it was
\* called, loaded the keys of self.models before the call
NoGot ==
    [symbol |-> "", returned |-> "", value |-> <<>>, raised |-> "",
     inner |-> "", loaded |-> {}]

\* available is MODELS_AVAILABLE, got the last call of get_prediction;
\* no serving process has been started: at is the position of load_models
\* in service_symbols (0: not started), models is self.models, read is what
\* torch.load found in each file it opened
NoService ==
    [at |-> 0, models |-> <<>>, read |-> <<>>, available |-> TRUE,
     got |-> NoGot]

\* no function is being called on its own
NoFrame == [op |-> "none", args |-> <<>>, result |-> <<>>]

\* pool_size of the connection pool
PoolSize == 5

\* DatabaseManager() on a reachable server: free is the number of
\* connections in the pool's queue, committed the number of statements
\* whose effect the server has committed, last the last finished call
NewManager ==
    [free |-> PoolSize, committed |-> 0,
     last |-> [op |-> "none", queries |-> 0, fail_at |-> 0, how |-> "",
               result |-> "", raised |-> "", before |-> 0]]

\* no train call is running
NoTrain ==
    [symbol |-> "", epochs |-> 0, batch_size |-> 0, rows |-> 0,
     X_train |-> <<>>, y_train |-> <<>>, X_val |-> <<>>, y_val |-> <<>>,
     epoch |-> 0, best_val_loss |-> Inf, val_losses |-> <<>>,
     train_losses |-> 0, lr |-> DefaultLearningRate,
     scheduler |-> NewScheduler]

\* no call has finished yet
NoCall ==
    [op |-> "none", symbol |-> "", error |-> "", fetched |-> FALSE,
     rows |-> 0, train_windows |-> 0, val_windows |-> 0,
     X |-> <<>>, prediction_scaled |-> <<0, 1>>,
     predicted_price |-> <<0, 1>>, current_price |-> 0,
     confidence_lower |-> Exact(<<0, 1>>),
     confidence_upper |-> Exact(<<0, 1>>),
     best_val_loss |-> Inf, metrics |-> _calculate_metrics(NoModel, <<>>)]

Init ==
    /\ db = [s \in Symbols |-> {}]
    /\ files = <<>>
    /\ scaler_features = NewScaler
    /\ scaler_target = NewScaler
    /\ model = NoModel
    /\ feature_columns = DefaultFeatureColumns
    /\ pc = "idle"
    /\ tr = NoTrain
    /\ runs = 0
    /\ last = NoCall
    /\ service = NoService
    /\ frame = NoFrame
    /\ manager = NewManager

(* ------------------------------ actions -------------------------------- *)
\* the collector stores the next day's row of a symbol
StoreRow(symbol) ==
    /\ Cardinality(db[symbol]) < MaxRows
    /\ db' = [db EXCEPT ![symbol] =
                 @ \cup {FeedRow(symbol, Cardinality(db[symbol]) + 1)}]
    /\ UNCHANGED <<files, scaler_features, scaler_target, model,
                   feature_columns, pc, tr, runs, last, service>>
    /\ UNCHANGED <<frame, manager>>

\* StockPricePredictor(sequence_length=SeqLen, model_path=path): a new
\* instance replaces the old one; path = "" stands for model_path=None
Construct(path) ==
    /\ pc = "idle"
    /\ IF path # "" /\ path \in DOMAIN files
       THEN LET loaded == _load_model(files[path])
            IN /\ scaler_features' = loaded.scaler_features
               /\ scaler_target' = loaded.scaler_target
               /\ feature_columns' = loaded.feature_columns
               /\ model' = loaded.model
       ELSE /\ scaler_features' = NewScaler
            /\ scaler_target' = NewScaler
            /\ feature_columns' = DefaultFeatureColumns
            /\ model' = NoModel
    /\ last' = [NoCall EXCEPT !.op = "construct"]
    /\ UNCHANGED <<db, files, pc, tr, runs, service>>
    /\ UNCHANGED <<frame, manager>>

\* train(symbol, epochs, batch_size, val_split) up to the start of the
\* epoch loop (lines 243-288), for every value of the other arguments
TrainStart(symbol) ==
    /\ pc = "idle"
    /\ runs < MaxRuns
    /\ \E df \in {fetch_training_data(db, symbol)} :
       LET failed(kind) == [NoCall EXCEPT !.op = "train", !.symbol = symbol,
                                          !.error = kind, !.fetched = TRUE,
                                          !.rows = Len(df)]
       IN IF df = <<>>
          THEN \* line 251
               /\ last' = failed("ValueError: No data available")
               /\ UNCHANGED <<scaler_features, scaler_target, model, pc, tr,
                              runs>>
          ELSE \E ps \in {prepare_sequences(feature_columns, SeqLen, df)} :
                  /\ scaler_features' = ps.scaler_features
                  /\ scaler_target' = ps.scaler_target
                  /\ IF ps.X = <<>>
                     THEN \* np.array([]) has one axis: X_train.shape[2]
                          \* on line 268 raises
                          /\ last' = failed("IndexError")
                          /\ UNCHANGED <<model, pc, tr, runs>>
                     ELSE /\ model' = [run |-> runs + 1, steps |-> 0,
                                       input_size |-> Len(ps.X[1][1])]
                          /\ runs' = runs + 1
                          /\ pc' = "epoch"
                          /\ \E epochs \in 1..MaxEpochs,
                                batch_size \in 1..MaxBatch,
                                val_percent \in ValSplits :
                               LET cut == split_idx(Len(ps.X), val_percent)
                               IN tr' = [NoTrain EXCEPT
                                   !.symbol = symbol, !.epochs = epochs,
                                   !.batch_size = batch_size,
                                   !.rows = Len(df),
                                   !.X_train = SubSeq(ps.X, 1, cut),
                                   !.y_train = SubSeq(ps.y, 1, cut),
                                   !.X_val = SubSeq(ps.X, cut + 1, Len(ps.X)),
                                   !.y_val = SubSeq(ps.y, cut + 1, Len(ps.y))]
                          /\ UNCHANGED last
    /\ UNCHANGED <<db, files, feature_columns, service>>
    /\ UNCHANGED <<frame, manager>>

\* one pass of the epoch loop (lines 290-334); val_loss is the validation
\* loss the network reaches after this epoch's optimizer steps
TrainEpoch(val_loss) ==
    /\ pc = "epoch"
    /\ tr.epoch < tr.epochs
    /\ LET num_batches == Len(tr.X_train) \div tr.batch_size
           stepped == [model EXCEPT !.steps = @ + num_batches]
           stepped_lr == scheduler_step(tr.scheduler, tr.lr, val_loss)
       IN IF num_batches = 0
          THEN \* line 316: total_loss / num_batches
               /\ last' = [NoCall EXCEPT !.op = "train",
                              !.symbol = tr.symbol, !.fetched = TRUE,
                              !.rows = tr.rows,
                              !.train_windows = Len(tr.X_train),
                              !.val_windows = Len(tr.X_val),
                              !.error = "ZeroDivisionError",
                              !.best_val_loss = tr.best_val_loss]
               /\ pc' = "idle"
               /\ tr' = NoTrain
               /\ UNCHANGED <<model, files>>
          ELSE /\ model' = stepped
               /\ IF improved(val_loss, tr.best_val_loss)
                  THEN /\ tr' = [tr EXCEPT !.epoch = @ + 1,
                                    !.train_losses = @ + 1,
                                    !.val_losses = Append(@, val_loss),
                                    !.lr = stepped_lr.lr,
                                    !.scheduler = stepped_lr.scheduler,
                                    !.best_val_loss = val_loss]
                       /\ files' = (ModelPath(tr.symbol) :>
                                      _save_model(stepped, scaler_features,
                                                  scaler_target,
                                                  feature_columns)) @@ files
                  ELSE /\ tr' = [tr EXCEPT !.epoch = @ + 1,
                                    !.train_losses = @ + 1,
                                    !.lr = stepped_lr.lr,
                                    !.scheduler = stepped_lr.scheduler,
                                    !.val_losses = Append(@, val_loss)]
                       /\ UNCHANGED files
               /\ UNCHANGED <<pc, last>>
    /\ UNCHANGED <<db, scaler_features, scaler_target, feature_columns, runs,
                   service>>
    /\ UNCHANGED <<frame, manager>>

\* the end of train (lines 336-343): metrics on the validation split with
\* the network as the loop left it
TrainFinish ==
    /\ pc = "epoch"
    /\ tr.epoch = tr.epochs
    /\ last' = [NoCall EXCEPT !.op = "train", !.symbol = tr.symbol,
                   !.fetched = TRUE, !.rows = tr.rows,
                   !.train_windows = Len(tr.X_train),
                   !.val_windows = Len(tr.X_val),
                   !.best_val_loss = tr.best_val_loss,
                   !.metrics = _calculate_metrics(model, tr.X_val)]
    /\ pc' = "idle"
    /\ tr' = NoTrain
    /\ UNCHANGED <<db, files, scaler_features, scaler_target, model,
                   feature_columns, runs, service>>
    /\ UNCHANGED <<frame, manager>>

\* predict(symbol), for every output the network may return for the window
Predict(symbol) ==
    /\ pc = "idle"
    /\ \E df \in {fetch_training_data(db, symbol)} :
       LET call == [NoCall EXCEPT !.op = "predict", !.symbol = symbol]
           fetched == [call EXCEPT !.fetched = TRUE, !.rows = Len(df)]
       IN IF model_is_none(model)
          THEN /\ last' = [call EXCEPT !.error =
                              "ValueError: Model not trained"]
               /\ UNCHANGED <<scaler_features, scaler_target>>
          ELSE IF not_enough_data(df, SeqLen)
          THEN /\ last' = [fetched EXCEPT !.error =
                              "ValueError: Not enough data"]
               /\ UNCHANGED <<scaler_features, scaler_target>>
          ELSE IF ~scaler_features.fitted \/ ~scaler_target.fitted
          THEN /\ last' = [fetched EXCEPT !.error = "NotFittedError"]
               /\ UNCHANGED <<scaler_features, scaler_target>>
          ELSE \E sc \in {predict_scale(scaler_features,
                                         Values(df, feature_columns))} :
               LET X == SubSeq(sc.scaled, Len(df) - SeqLen + 1, Len(df))
               IN /\ scaler_features' = sc.scaler
                  /\ UNCHANGED scaler_target
                  /\ IF model = NoModel
                     THEN \* self.model.eval() on None
                          last' = [fetched EXCEPT !.error = "AttributeError"]
                     ELSE \E sd \in {std([i \in 1..Len(df) |->
                                                df[i].close_price])} :
                          \E output \in Outputs :
                          \E prediction \in
                               {InverseTransform(scaler_target, 1, output)} :
                            last' = [fetched EXCEPT
                             !.X = X,
                             !.prediction_scaled = output,
                             !.predicted_price = prediction,
                             !.confidence_lower =
                                 confidence_lower(prediction, sd),
                             !.confidence_upper =
                                 confidence_upper(prediction, sd),
                             !.current_price = df[Len(df)].close_price]
    /\ UNCHANGED <<db, files, model, feature_columns, pc, tr, runs, service>>
    /\ UNCHANGED <<frame, manager>>

Next ==
    \/ \E s \in Symbols : StoreRow(s)
    \/ \E p \in {""} \cup {ModelPath(s) : s \in Symbols} : Construct(p)
    \/ \E s \in Symbols : TrainStart(s)
    \/ \E l \in 1..MaxLoss : TrainEpoch(l)
    \/ TrainFinish
    \/ \E s \in Symbols : Predict(s)

Spec == Init /\ [][Next]_vars

(* ------------- saving and loading as two processes see it -------------- *)
\* the entries of the dictionary torch.save serialises, in the order they
\* reach the file
CheckpointFields ==
    <<"model_state_dict", "scaler_features", "scaler_target",
      "feature_columns">>

\* what the file holds when torch.save has written the first k entries of
\* a checkpoint: torch.save opens the path itself for writing, so the file
\* is empty at k = 0 and grows in place
WrittenPart(checkpoint, k) ==
    [f \in {CheckpointFields[i] : i \in 1..k} |-> checkpoint[f]]

\* the file holds a whole checkpoint
Complete(content) ==
    DOMAIN content = {CheckpointFields[i] : i \in 1..Len(CheckpointFields)}

\* torch.save(obj, path) opening its file: the path exists from now on and
\* is empty
torch_save_open(store, path) == (path :> WrittenPart(<<>>, 0)) @@ store

\* the store as the collector fills it: MaxRows days of every symbol
FullStore == [s \in Symbols |-> {FeedRow(s, d) : d \in 1..MaxRows}]

InitSave ==
    /\ db = FullStore
    /\ files = <<>>
    /\ scaler_features = NewScaler
    /\ scaler_target = NewScaler
    /\ model = NoModel
    /\ feature_columns = DefaultFeatureColumns
    /\ pc = "idle"
    /\ tr = NoTrain
    /\ runs = 0
    /\ last = NoCall
    /\ service = NoService
    /\ frame = NoFrame
    /\ manager = NewManager

\* one pass of the epoch loop (lines 290-334) up to the point where
\* _save_model has opened the checkpoint file (line 440), or to the end of
\* the pass when the epoch does not save
TrainEpochOpen(val_loss) ==
    /\ pc = "epoch"
    /\ tr.epoch < tr.epochs
    /\ LET num_batches == Len(tr.X_train) \div tr.batch_size
           stepped == [model EXCEPT !.steps = @ + num_batches]
           stepped_lr == scheduler_step(tr.scheduler, tr.lr, val_loss)
       IN IF num_batches = 0
          THEN /\ last' = [NoCall EXCEPT !.op = "train",
                              !.symbol = tr.symbol, !.fetched = TRUE,
                              !.rows = tr.rows,
                              !.train_windows = Len(tr.X_train),
                              !.val_windows = Len(tr.X_val),
                              !.error = "ZeroDivisionError",
                              !.best_val_loss = tr.best_val_loss]
               /\ pc' = "idle"
               /\ tr' = NoTrain
               /\ UNCHANGED <<model, files>>
          ELSE /\ model' = stepped
               /\ IF improved(val_loss, tr.best_val_loss)
                  THEN /\ tr' = [tr EXCEPT !.epoch = @ + 1,
                                    !.train_losses = @ + 1,
                                    !.val_losses = Append(@, val_loss),
                                    !.lr = stepped_lr.lr,
                                    !.scheduler = stepped_lr.scheduler,
                                    !.best_val_loss = val_loss]
                       /\ files' = torch_save_open(files, ModelPath(tr.symbol))
                       /\ pc' = "saving"
                  ELSE /\ tr' = [tr EXCEPT !.epoch = @ + 1,
                                    !.train_losses = @ + 1,
                                    !.lr = stepped_lr.lr,
                                    !.scheduler = stepped_lr.scheduler,
                                    !.val_losses = Append(@, val_loss)]
                       /\ UNCHANGED <<files, pc>>
               /\ UNCHANGED last
    /\ UNCHANGED <<db, scaler_features, scaler_target, feature_columns, runs,
                   service>>
    /\ UNCHANGED <<frame, manager>>

\* torch.save writes the next entry of the checkpoint (lines 440-445);
\* after the last one the file is closed and the epoch loop goes on
TorchSaveWrite ==
    /\ pc = "saving"
    /\ LET path == ModelPath(tr.symbol)
           checkpoint == _save_model(model, scaler_features, scaler_target,
                                     feature_columns)
           k == IF path \in DOMAIN files /\ ~Complete(files[path])
                THEN Cardinality(DOMAIN files[path]) + 1
                ELSE Len(CheckpointFields)
       IN /\ files' = (path :> WrittenPart(checkpoint, k)) @@ files
          /\ pc' = IF k = Len(CheckpointFields) THEN "epoch" ELSE "saving"
    /\ UNCHANGED <<db, scaler_features, scaler_target, model,
                   feature_columns, tr, runs, last, service>>
    /\ UNCHANGED <<frame, manager>>

\* MLPredictionService(): a serving process starts with no model loaded
\* and begins load_models (lines 27-33)
ServiceStart ==
    /\ service.at \in {0, Len(service_symbols) + 1}
    /\ service' = [NoService EXCEPT !.at = 1]
    /\ UNCHANGED <<db, files, scaler_features, scaler_target, model,
                   feature_columns, pc, tr, runs, last>>
    /\ UNCHANGED <<frame, manager>>

\* one pass of the loop of load_models (lines 39-54): a file that exists is
\* read by torch.load as it is at this moment; a file that is not a whole
\* checkpoint makes torch.load raise, which line 51 catches and logs
LoadModel ==
    /\ service.at \in 1..Len(service_symbols)
    /\ LET symbol == service_symbols[service.at]
           path == ModelPath(symbol)
       IN IF path \notin DOMAIN files
          THEN service' = [service EXCEPT !.at = @ + 1]
          ELSE IF Complete(files[path])
          THEN service' = [service EXCEPT
                              !.at = @ + 1,
                              !.models = (symbol :> _load_model(files[path]))
                                             @@ @,
                              !.read = (symbol :> files[path]) @@ @]
          ELSE service' = [service EXCEPT
                              !.at = @ + 1,
                              !.read = (symbol :> files[path]) @@ @]
    /\ UNCHANGED <<db, files, scaler_features, scaler_target, model,
                   feature_columns, pc, tr, runs, last>>
    /\ UNCHANGED <<frame, manager>>

NextSave ==
    \/ \E s \in Symbols : TrainStart(s)
    \/ \E l \in 1..MaxLoss : TrainEpochOpen(l)
    \/ TorchSaveWrite
    \/ TrainFinish
    \/ ServiceStart
    \/ LoadModel

\* a training process and a serving process on the same models directory
SpecSave == InitSave /\ [][NextSave]_vars

(* ------------------------- one long training run ---------------------- *)
\* the validation losses of the long run
PlateauLosses == {1, 2}

\* train(symbol, epochs=LongEpochs, batch_size=1) on the filled store, at
\* the start of its epoch loop (line 290): what lines 243-288 leave
InitLong ==
    \E symbol \in Symbols, val_percent \in ValSplits :
    \E df \in {fetch_training_data(FullStore, symbol)} :
    \E ps \in {prepare_sequences(DefaultFeatureColumns, SeqLen, df)} :
    \E cut \in {split_idx(Len(ps.X), val_percent)} :
        /\ db = FullStore
        /\ files = <<>>
        /\ scaler_features = ps.scaler_features
        /\ scaler_target = ps.scaler_target
        /\ model = [run |-> 1, steps |-> 0, input_size |-> Len(ps.X[1][1])]
        /\ feature_columns = DefaultFeatureColumns
        /\ pc = "epoch"
        /\ tr = [NoTrain EXCEPT
                   !.symbol = symbol, !.epochs = LongEpochs,
                   !.batch_size = 1, !.rows = Len(df),
                   !.X_train = SubSeq(ps.X, 1, cut),
                   !.y_train = SubSeq(ps.y, 1, cut),
                   !.X_val = SubSeq(ps.X, cut + 1, Len(ps.X)),
                   !.y_val = SubSeq(ps.y, cut + 1, Len(ps.y))]
        /\ runs = 1
        /\ last = NoCall
        /\ service = NoService
        /\ frame = NoFrame
        /\ manager = NewManager

NextLong ==
    \/ \E l \in PlateauLosses : TrainEpoch(l)
    \/ TrainFinish

\* the epoch loop of one train call with many epochs
SpecLong == InitLong /\ [][NextLong]_vars

(* ----------------------- technical indicators -------------------------- *)
\* rolling(window=20): sma_20 and the Bollinger bands (lines 32, 51, 52)
SmaWindow == 20
\* rolling(window=50): sma_50 (line 33)
LongSmaWindow == 50
\* rolling(window=14): the averages of RSI (lines 45, 46)
RsiWindow == 14
\* std * 2: the half width of the Bollinger bands (lines 53, 54)
BandWidth == 2

\* a float64 as a pair n/d: d > 0 a number, <<0, 0>> NaN, <<1, 0>> and
\* <<-1, 0>> the infinities
FNaN == <<0, 0>>
IsNaN(x) == x = FNaN
Sign(n) == IF n > 0 THEN 1 ELSE IF n < 0 THEN 0 - 1 ELSE 0
Abs(n) == IF n < 0 THEN 0 - n ELSE n

\* a / b on float64: x / 0 is an infinity, 0 / 0 and inf / inf are NaN
fdiv(a, b) ==
    IF IsNaN(a) \/ IsNaN(b) THEN FNaN
    ELSE IF b[2] = 0 THEN (IF a[2] = 0 THEN FNaN ELSE <<0, 1>>)
    ELSE IF a[2] = 0 THEN <<a[1] * (IF b[1] < 0 THEN 0 - 1 ELSE 1), 0>>
    ELSE IF b[1] = 0 THEN (IF a[1] = 0 THEN FNaN ELSE <<Sign(a[1]), 0>>)
    ELSE <<a[1] * b[2] * Sign(b[1]), a[2] * Abs(b[1])>>

\* a + b on float64
fadd(a, b) ==
    IF IsNaN(a) \/ IsNaN(b) THEN FNaN
    ELSE IF a[2] = 0 /\ b[2] = 0 THEN (IF a[1] = b[1] THEN a ELSE FNaN)
    ELSE IF a[2] = 0 THEN a
    ELSE IF b[2] = 0 THEN b
    ELSE <<a[1] * b[2] + b[1] * a[2], a[2] * b[2]>>

\* a - b on float64
fsub(a, b) == fadd(a, <<0 - b[1], b[2]>>)

\* Series.rolling(window).mean() on a column of integers: missing until
\* window rows are there
rolling_mean(values, window) ==
    Array([i \in 1..Len(values) |->
        IF i < window THEN FNaN
        ELSE <<Sum(SubSeq(values, i - window + 1, i)), window>>])

\* Series.rolling(window).std() on a column of integers (ddof = 1)
rolling_std(values, window) ==
    Array([i \in 1..Len(values) |->
        IF i < window THEN [nan |-> TRUE, sq |-> <<0, 1>>]
        ELSE std(SubSeq(values, i - window + 1, i))])

\* Series.diff(): the first row has no predecessor
diff(values) ==
    Array([i \in 1..Len(values) |->
        IF i = 1 THEN FNaN ELSE <<values[i] - values[i - 1], 1>>])

\* delta.where(delta > 0, 0) with the deltas of both signs kept
gains_unclipped(delta) ==
    Array([i \in 1..Len(delta) |-> IF IsNaN(delta[i]) THEN 0 ELSE delta[i][1]])

\* line 45, delta.where(delta > 0, 0): a row where the condition is false,
\* the NaN of the first row too, becomes 0
gains(delta) ==
    Array([i \in 1..Len(delta) |->
        IF ~IsNaN(delta[i]) /\ delta[i][1] > 0 THEN delta[i][1] ELSE 0])

\* line 46, -delta.where(delta < 0, 0)
losses_of(delta) ==
    Array([i \in 1..Len(delta) |->
        IF ~IsNaN(delta[i]) /\ delta[i][1] < 0 THEN 0 - delta[i][1] ELSE 0])

\* lines 47-48: rs = gain / loss; rsi = 100 - (100 / (1 + rs))
rsi_of(gain, loss) ==
    fsub(<<100, 1>>, fdiv(<<100, 1>>, fadd(<<1, 1>>, fdiv(gain, loss))))

\* a missing cell of a band column
Missing == [nan |-> TRUE, rat |-> <<0, 1>>, coef |-> <<0, 1>>, sq |-> <<0, 1>>]

\* lines 53-54: bollinger_middle + (std * 2) for sign 1, - for sign -1
band(middle, sd, sign) ==
    IF IsNaN(middle) \/ sd.nan THEN Missing
    ELSE [nan |-> FALSE, rat |-> middle, coef |-> <<sign * BandWidth, 1>>,
          sq |-> sd.sq]

\* an exponentially weighted mean (ewm(span, adjust=False).mean()) of a
\* column, carried as a term and not evaluated
ewm_mean(column, span) == [ewm_of |-> column, span |-> span]

\* the Bollinger middle band taken over one row fewer than sma_20
bollinger_middle_short(close) == rolling_mean(close, SmaWindow - 1)

\* line 51: df['close_price'].rolling(window=20).mean()
bollinger_middle(close) == rolling_mean(close, SmaWindow)

\* calculate_technical_indicators(df): the columns it assigns to df, which
\* it returns (lines 32-56); df is a table held by its columns
calculate_technical_indicators(df) ==
    LET close == df.close_price
        n == Len(close)
        delta == diff(close)
        gain == rolling_mean(gains(delta), RsiWindow)
        loss == rolling_mean(losses_of(delta), RsiWindow)
        middle == bollinger_middle(close)
        sd == rolling_std(close, SmaWindow)
    IN [close_price |-> close,
        sma_20 |-> rolling_mean(close, SmaWindow),
        sma_50 |-> rolling_mean(close, LongSmaWindow),
        ema_12 |-> ewm_mean("close_price", 12),
        ema_26 |-> ewm_mean("close_price", 26),
        macd |-> [minuend |-> "ema_12", subtrahend |-> "ema_26"],
        macd_signal |-> ewm_mean("macd", 9),
        rsi |-> Array([i \in 1..n |-> rsi_of(gain[i], loss[i])]),
        bollinger_middle |-> middle,
        bollinger_upper |-> Array([i \in 1..n |-> band(middle[i], sd[i], 1)]),
        bollinger_lower |->
            Array([i \in 1..n |-> band(middle[i], sd[i], 0 - 1)])]

(* -------------------- functions called on their own -------------------- *)
\* everything but the frame
program == <<db, files, scaler_features, scaler_target, model,
             feature_columns, pc, tr, runs, last, service, manager>>

\* lines 257-259 of train on W windows, window i standing for itself and
\* its label for 100 + i
CallSplit(W, val_percent) ==
    /\ frame.op = "none"
    /\ LET X == [i \in 1..W |-> i]
           y == [i \in 1..W |-> 100 + i]
       IN frame' = [op |-> "split",
                    args |-> [X |-> X, y |-> y, val_percent |-> val_percent],
                    result |-> train_val_split(X, y, val_percent)]
    /\ UNCHANGED program

NextSplit == \E W \in 0..MaxWindows, v \in SplitPercents : CallSplit(W, v)

\* the train/validation split of train on every number of windows
SpecSplit == Init /\ [][NextSplit]_vars

\* the cells of a fetched row before filling: NULL or a value
FillCells == {NaN, 5, 7}

\* line 186 of fetch_training_data on a fetched table of two indicator
\* columns
CallFill(df) ==
    /\ frame.op = "none"
    /\ frame' = [op |-> "fill", args |-> [df |-> df],
                 result |-> fill_missing(df)]
    /\ UNCHANGED program

NextFill ==
    \E n \in 1..MaxFillRows :
    \E df \in [1..n -> [rsi : FillCells, sma_20 : {NaN, 3}]] : CallFill(df)

\* the filling of missing values on every small table
SpecFill == Init /\ [][NextFill]_vars

\* the close of the first day of a history, and the day-to-day changes
StartClose == 100
Deltas == {0 - 1, 0, 1}

\* the changes of direction in a history
Turns(close) ==
    Cardinality({i \in 3..Len(close) :
        close[i] - close[i - 1] # close[i - 1] - close[i - 2]})

\* ticker.history(...) of fetch_stock_data (line 70) gives one more day
AppendClose(delta) ==
    /\ frame.op \in {"none", "history"}
    /\ \E close \in {IF frame.op = "none" THEN <<StartClose>>
                     ELSE Append(frame.args.df.close_price,
                                 frame.args.df.close_price[
                                     Len(frame.args.df.close_price)] + delta)} :
          /\ frame.op = "none" => delta = 0
          /\ Len(close) <= MaxCloses
          /\ Turns(close) <= MaxTurns
          /\ frame' = [op |-> "history", args |-> [df |-> [close_price |-> close]],
                       result |-> <<>>]
    /\ UNCHANGED program

\* calculate_technical_indicators(df) as fetch_stock_data calls it (line
\* 95): the columns are assigned to the caller's table, which is returned
Calculate ==
    /\ frame.op = "history"
    /\ \E table \in {calculate_technical_indicators(frame.args.df)} :
          frame' = [op |-> "indicators", args |-> [df |-> table],
                    result |-> table]
    /\ UNCHANGED program

NextIndicators ==
    \/ \E delta \in Deltas : AppendClose(delta)
    \/ Calculate

\* the indicators of every price history of up to MaxCloses days
SpecIndicators == Init /\ [][NextIndicators]_vars

(* ------------------------ storing price rows -------------------------- *)
\* days of a price history the collector and the populate script fetch
MaxDays == 2

\* a later fetch of the same day can see an adjusted close
Revisions == {0, 1}

\* the rows of df = fetch_stock_data(symbol, start_date, end_date): one row
\* per trading day of the range, in date order
FetchedRows(symbol, from, to, rev) ==
    Array([i \in 1..(to - from + 1) |->
        [FeedRow(symbol, from + i - 1) EXCEPT !.close_price = @ + rev]])

\* the rows populate_stocks.py inserts for a day: prices only, every
\* indicator column NULL
PopulateRow(symbol, d) ==
    [c \in DOMAIN FeedRow(symbol, d) |->
        IF c \in {"price_date", "open_price", "high_price", "low_price",
                  "close_price", "volume", "sentiment_score"}
        THEN FeedRow(symbol, d)[c] ELSE NaN]

\* the unique key of stock_prices on (stock_id, price_date): the row of
\* the table that an INSERT of row collides with, if any
unique_stock_date(rows, row) == {r \in rows : r.price_date = row.price_date}

\* INSERT IGNORE INTO stock_prices: a row whose key exists is dropped
insert_ignore(rows, row) ==
    IF unique_stock_date(rows, row) # {} THEN rows ELSE rows \cup {row}

\* INSERT ... ON DUPLICATE KEY UPDATE col = VALUES(col) for every value
\* column: a row whose key exists takes the new values
insert_or_update(rows, row) ==
    (rows \ unique_stock_date(rows, row)) \cup {row}

RECURSIVE executemany(_, _, _)
\* cursor.executemany(query, data): the statement once per row, in order
executemany(statement, rows, data) ==
    IF data = <<>> THEN rows
    ELSE executemany(statement,
                     IF statement = "ignore" THEN insert_ignore(rows, data[1])
                     ELSE insert_or_update(rows, data[1]),
                     SubSeq(data, 2, Len(data)))

\* store_stock_data with INSERT IGNORE in place of the update clause
store_stock_data_ignoring(store, symbol, df) ==
    [store EXCEPT ![symbol] = executemany("ignore", @, df)]

\* store_stock_data(symbol, df) on the store db, committed
store_stock_data(store, symbol, df) ==
    [store EXCEPT ![symbol] = executemany("update", @, df)]

\* cursor.rowcount after the statement: 1 for a new row, 2 for a row whose
\* values changed, 0 for a row stored again with the same values
rows_affected(store, symbol, df) ==
    Sum([i \in 1..Len(df) |->
        LET before == executemany("update", store[symbol],
                                  SubSeq(df, 1, i - 1))
        IN IF unique_stock_date(before, df[i]) = {} THEN 1
           ELSE IF df[i] \in before THEN 0 ELSE 2])

\* collect_and_store on one symbol and one date range
StoreStockData(symbol, from, to, rev) ==
    /\ frame.op \in {"none", "store", "populate", "fetch"}
    /\ \E df \in {FetchedRows(symbol, from, to, rev)} :
          /\ db' = store_stock_data(db, symbol, df)
          /\ frame' = [op |-> "store", args |-> [symbol |-> symbol, df |-> df],
                       result |-> rows_affected(db, symbol, df)]
    /\ UNCHANGED <<files, scaler_features, scaler_target, model,
                   feature_columns, pc, tr, runs, last, service, manager>>

\* fetch_and_insert_prices of populate_stocks.py: every company, every
\* day of the range, INSERT IGNORE
Populate(from, to) ==
    /\ frame.op \in {"none", "store", "populate", "fetch"}
    /\ db' = [s \in Symbols |->
                 executemany("ignore", db[s],
                     Array([i \in 1..(to - from + 1) |->
                         PopulateRow(s, from + i - 1)]))]
    /\ frame' = [op |-> "populate", args |-> [from |-> from, to |-> to],
                 result |-> <<>>]
    /\ UNCHANGED <<files, scaler_features, scaler_target, model,
                   feature_columns, pc, tr, runs, last, service, manager>>

\* fetch_training_data(symbol) on the store as it is
FetchTraining(symbol) ==
    /\ frame.op \in {"none", "store", "populate", "fetch"}
    /\ frame' = [op |-> "fetch", args |-> [symbol |-> symbol],
                 result |-> fetch_training_data(db, symbol)]
    /\ UNCHANGED program

NextStore ==
    \/ \E s \in Symbols, from \in 1..MaxDays, rev \in Revisions :
       \E to \in from..MaxDays : StoreStockData(s, from, to, rev)
    \/ \E from \in 1..MaxDays : \E to \in from..MaxDays : Populate(from, to)
    \/ \E s \in Symbols : FetchTraining(s)

\* the price store under any sequence of collector and populate runs
SpecStore == Init /\ [][NextStore]_vars

(* --------------------- the database access layer ---------------------- *)
\* longest list of queries handed to execute_transaction
MaxQueries == 2
\* statements the server commits in one behaviour
MaxCommitted == 4

\* how a statement or a commit ends: normally, with a database Error on a
\* connection that stays up, or with the Error of a connection that is lost
\* (is_connected() is False from then on)
Outcomes == {"error", "lost"}

\* everything but the manager
others == <<db, files, scaler_features, scaler_target, model,
            feature_columns, pc, tr, runs, last, service, frame>>

\* the finally clause of get_connection (lines 167-169): the connection
\* goes back to the pool only if it is still connected
close_connection(free, alive) == IF alive THEN free + 1 ELSE free

\* the statements of a call that ran before the one that raised
executed(n, fail_at) ==
    IF fail_at = 0 \/ fail_at > n THEN n ELSE fail_at - 1

\* one finished call of the manager m: the pool after it, what the server
\* has committed, and the outcome
finished(m, op, n, fail_at, how, free, committed, result, raised) ==
    [free |-> free, committed |-> committed,
     last |-> [op |-> op, queries |-> n, fail_at |-> fail_at, how |-> how,
               result |-> result, raised |-> raised,
               before |-> m.committed]]

\* a call that found the pool empty: pool.get_connection() raises
\* PoolError, a database Error, before any statement runs
exhausted(m, op, n, result, raised) ==
    finished(m, op, n, 0, "PoolError", m.free, m.committed, result, raised)

\* execute_query(query, params, fetch): no commit; an Error is logged and
\* raised again
execute_query(m, fetch, fail_at, how) ==
    IF m.free = 0 THEN exhausted(m, "execute_query", 1, "", "Error")
    ELSE finished(m, "execute_query", 1, fail_at, how,
                  close_connection(m.free - 1, how # "lost"), m.committed,
                  IF fail_at # 0 THEN "" ELSE IF fetch THEN "rows" ELSE "None",
                  IF fail_at # 0 THEN "Error" ELSE "")

\* execute_many(query, data): one bulk statement, then commit; an Error is
\* logged and raised again
execute_many(m, fail_at, how) ==
    IF m.free = 0 THEN exhausted(m, "execute_many", 1, "", "Error")
    ELSE finished(m, "execute_many", 1, fail_at, how,
                  close_connection(m.free - 1, how # "lost"),
                  IF fail_at = 0 THEN m.committed + 1 ELSE m.committed,
                  IF fail_at # 0 THEN "" ELSE "affected_rows",
                  IF fail_at # 0 THEN "Error" ELSE "")

\* execute_transaction with conn.commit() in place of conn.rollback()
execute_transaction_committing(m, n, fail_at, how) ==
    IF m.free = 0 THEN exhausted(m, "execute_transaction", n, "False", "")
    ELSE finished(m, "execute_transaction", n, fail_at, how,
                  close_connection(m.free - 1, how # "lost"),
                  IF how = "lost" THEN m.committed
                  ELSE m.committed + executed(n, fail_at),
                  IF fail_at = 0 THEN "True" ELSE "False", "")

\* execute_transaction(queries) with n queries: the statements in order,
\* then commit.  fail_at = k <= n: statement k raises; fail_at = n + 1: the
\* commit raises.  On an Error the connection rolls back (if it is lost the
\* rollback raises too, the outer handler returns False and the server
\* discards the open transaction).  A commit that raises has not committed
execute_transaction(m, n, fail_at, how) ==
    IF m.free = 0 THEN exhausted(m, "execute_transaction", n, "False", "")
    ELSE finished(m, "execute_transaction", n, fail_at, how,
                  close_connection(m.free - 1, how # "lost"),
                  IF fail_at = 0 THEN m.committed + executed(n, fail_at)
                  ELSE m.committed,
                  IF fail_at = 0 THEN "True" ELSE "False", "")

\* insert_one(table, data): one INSERT, then commit; None on an Error
insert_one(m, fail_at, how) ==
    IF m.free = 0 THEN exhausted(m, "insert_one", 1, "None", "")
    ELSE finished(m, "insert_one", 1, fail_at, how,
                  close_connection(m.free - 1, how # "lost"),
                  IF fail_at = 0 THEN m.committed + 1 ELSE m.committed,
                  IF fail_at # 0 THEN "None" ELSE "last_id", "")

\* fetch_dict(query, params): no commit; the empty list on an Error
fetch_dict(m, fail_at, how) ==
    IF m.free = 0 THEN exhausted(m, "fetch_dict", 1, "[]", "")
    ELSE finished(m, "fetch_dict", 1, fail_at, how,
                  close_connection(m.free - 1, how # "lost"), m.committed,
                  IF fail_at # 0 THEN "[]" ELSE "rows", "")

\* test_connection(): SELECT 1; False on an Error
test_connection(m, fail_at, how) ==
    IF m.free = 0 THEN exhausted(m, "test_connection", 1, "False", "")
    ELSE finished(m, "test_connection", 1, fail_at, how,
                  close_connection(m.free - 1, how # "lost"), m.committed,
                  IF fail_at # 0 THEN "False" ELSE "True", "")

\* the ways a call of n statements can go: no failure, or an Error at
\* statement 1..n or (commits = 1) at the commit
Scripts(n, commits) ==
    {<<0, "ok">>} \cup ((1..(n + commits)) \X Outcomes)

ExecuteQuery(fetch, script) ==
    /\ manager' = execute_query(manager, fetch, script[1], script[2])
    /\ UNCHANGED others

ExecuteMany(script) ==
    /\ manager.committed + 1 <= MaxCommitted
    /\ manager' = execute_many(manager, script[1], script[2])
    /\ UNCHANGED others

ExecuteTransaction(n, script) ==
    /\ manager.committed + n <= MaxCommitted
    /\ manager' = execute_transaction(manager, n, script[1], script[2])
    /\ UNCHANGED others

InsertOne(script) ==
    /\ manager.committed + 1 <= MaxCommitted
    /\ manager' = insert_one(manager, script[1], script[2])
    /\ UNCHANGED others

FetchDict(script) ==
    /\ manager' = fetch_dict(manager, script[1], script[2])
    /\ UNCHANGED others

TestConnection(script) ==
    /\ manager' = test_connection(manager, script[1], script[2])
    /\ UNCHANGED others

\* health_check of the API (GET /health): test_connection() is called
\* and its return value dropped; only an exception gives 503
health_check(m, fail_at, how) ==
    LET tested == test_connection(m, fail_at, how)
    IN [tested EXCEPT !.last.op = "health_check",
                      !.last.result = IF tested.last.raised # "" THEN "503"
                                      ELSE "200 healthy connected"]

HealthCheck(script) ==
    /\ manager' = health_check(manager, script[1], script[2])
    /\ UNCHANGED others

NextManager ==
    \/ \E fetch \in BOOLEAN, script \in Scripts(1, 0) :
          ExecuteQuery(fetch, script)
    \/ \E script \in Scripts(1, 1) : ExecuteMany(script)
    \/ \E n \in 0..MaxQueries : \E script \in Scripts(n, 1) :
          ExecuteTransaction(n, script)
    \/ \E script \in Scripts(1, 1) : InsertOne(script)
    \/ \E script \in Scripts(1, 0) : FetchDict(script)
    \/ \E script \in Scripts(1, 0) : TestConnection(script)
    \/ \E script \in Scripts(1, 0) : HealthCheck(script)

\* one DatabaseManager used by one thread, call after call
SpecManager == Init /\ [][NextManager]_vars

(* ------------------- the database configuration ----------------------- *)
\* os.getenv(name) of a variable that is not set
Unset == "<unset>"

\* urlparse(url) of the DATABASE_URL values tried: the parts that
\* _parse_database_url reads, the path as its characters, port = 0 where
\* the URL names none, and a port that is not a number where .port raises
ParsedUrls ==
    {[url |-> "mysql://u:p@url.host:3308/db1", hostname |-> "url.host",
      port |-> 3308, path |-> <<"/", "d", "b", "1">>, username |-> "u",
      password |-> "p", ssl |-> FALSE, bad_port |-> FALSE],
     [url |-> "mysql://u:p@url.host/db1?ssl-mode=REQUIRED",
      hostname |-> "url.host", port |-> 0, path |-> <<"/", "d", "b", "1">>,
      username |-> "u", password |-> "p", ssl |-> TRUE, bad_port |-> FALSE],
     [url |-> "mysql://u:p@url.host:port/db1", hostname |-> "url.host",
      port |-> 0, path |-> <<"/", "d", "b", "1">>, username |-> "u",
      password |-> "p", ssl |-> FALSE, bad_port |-> TRUE]}

urlparse(url) == CHOOSE parsed \in ParsedUrls : parsed.url = url

RECURSIVE lstrip(_, _)
\* str.lstrip(c)
lstrip(chars, c) ==
    IF chars # <<>> /\ chars[1] = c THEN lstrip(Tail(chars), c) ELSE chars

RECURSIVE before_mark(_, _)
\* str.split(c)[0]
before_mark(chars, c) ==
    IF chars = <<>> \/ chars[1] = c THEN <<>>
    ELSE <<chars[1]>> \o before_mark(Tail(chars), c)

\* int(text) of the port values tried
int(text) == IF text = "3307" THEN 3307 ELSE 0

\* a dictionary with no keys
EmptyDict == [k \in {} |-> ""]

\* the call returned config
Returned(config) == [raised |-> "", config |-> config]

\* the call raised
Raised(error) == [raised |-> error, config |-> EmptyDict]

\* _parse_database_url(url)
_parse_database_url(url) ==
    LET parsed == urlparse(url)
        config == [host |-> parsed.hostname,
                   port |-> IF parsed.port # 0 THEN parsed.port ELSE 3306,
                   database |-> before_mark(lstrip(parsed.path, "/"), "?"),
                   user |-> parsed.username,
                   password |-> parsed.password,
                   pool_name |-> "stock_ml_pool",
                   pool_size |-> PoolSize]
    IN IF parsed.bad_port THEN Raised("ValueError")
       ELSE IF parsed.ssl
            THEN Returned(config @@ [ssl_disabled |-> FALSE])
            ELSE Returned(config)

\* _get_default_config()
_get_default_config ==
    [host |-> "localhost", port |-> 3306,
     database |-> <<"s", "t", "o", "c", "k", "_", "m", "l", "_", "d", "b">>,
     user |-> "root", password |-> "Ihb99ihb$@$@",
     pool_name |-> "stock_ml_pool", pool_size |-> PoolSize]

\* the Railway branch of _load_config (lines 85-96)
railway_config(env) ==
    [host |-> env.MYSQLHOST,
     port |-> IF env.MYSQLPORT = Unset THEN 3306 ELSE int(env.MYSQLPORT),
     database |-> IF env.MYSQL_DATABASE \notin {Unset, ""}
                  THEN env.MYSQL_DATABASE
                  ELSE IF env.MYSQLDATABASE = Unset THEN "railway"
                       ELSE env.MYSQLDATABASE,
     user |-> "root", password |-> "",
     pool_name |-> "stock_ml_pool", pool_size |-> PoolSize]

\* what config.yaml can be: not there; there but open or yaml.safe_load
\* raises; there and empty (safe_load gives None, None.get raises); a
\* mapping without a database section; a mapping with one
ConfigFiles == {"missing", "unreadable", "empty", "no_database", "database"}

\* the database section of the config file tried
FileSection ==
    [host |-> "file.host", port |-> 3306, database |-> <<"f", "d", "b">>,
     user |-> "app", password |-> "secret"]

\* the config-file branch of _load_config (lines 99-107): the section, or
\* nothing when the file is missing or an exception was logged
file_config(file) ==
    IF file = "database" THEN <<FileSection>>
    ELSE IF file = "no_database" THEN <<EmptyDict>>
    ELSE <<>>

\* _load_config with the Railway variables looked at first
_load_config_railway_first(env, file) ==
    IF env.MYSQLHOST \notin {Unset, ""} THEN Returned(railway_config(env))
    ELSE IF env.DATABASE_URL \notin {Unset, ""}
         THEN _parse_database_url(env.DATABASE_URL)
    ELSE IF file_config(file) # <<>> THEN Returned(file_config(file)[1])
    ELSE Returned(_get_default_config)

\* _load_config(config_path) under the environment env, with the file at
\* config_path being file
_load_config(env, file) ==
    IF env.DATABASE_URL \notin {Unset, ""}
    THEN _parse_database_url(env.DATABASE_URL)
    ELSE IF env.MYSQLHOST \notin {Unset, ""}
         THEN Returned(railway_config(env))
    ELSE IF file_config(file) # <<>> THEN Returned(file_config(file)[1])
    ELSE Returned(_get_default_config)

\* the environments tried
Environments ==
    [DATABASE_URL : {Unset, ""} \cup {parsed.url : parsed \in ParsedUrls},
     MYSQLHOST : {Unset, "", "railway.host"},
     MYSQLPORT : {Unset, "3307"},
     MYSQL_DATABASE : {Unset, "", "app"},
     MYSQLDATABASE : {Unset, "rail"}]

CallLoadConfig(env, file) ==
    /\ frame.op = "none"
    /\ frame' = [op |-> "_load_config", args |-> [env |-> env, file |-> file],
                 result |-> _load_config(env, file)]
    /\ UNCHANGED program

NextConfig == \E env \in Environments, file \in ConfigFiles :
                  CallLoadConfig(env, file)

\* _load_config under every environment and config file
SpecConfig == Init /\ [][NextConfig]_vars

(* ---------------------- the batches of an epoch ----------------------- *)
\* most training windows and largest batch_size of the loop on its own
MaxTrainWindows == 9
MaxBatchSize == 4

\* a[start:end] of Python on a sequence: 0-based, end excluded, both
\* clipped to the length
Slice(a, start, end) ==
    SubSeq(a, (IF start < Len(a) THEN start ELSE Len(a)) + 1,
              IF end < Len(a) THEN end ELSE Len(a))

\* lines 304-312: what is done with one batch, in order
batch_ops ==
    <<"forward", "loss", "zero_grad", "backward", "clip_grad_norm_",
      "optimizer.step">>

\* the batch of loop index i starting at i in place of i * batch_size
mini_batch_step_one(X_train, y_train, batch_size, i) ==
    [batch_X |-> Slice(X_train, i, i + batch_size),
     batch_y |-> Slice(y_train, i, i + batch_size),
     ops |-> batch_ops, max_norm |-> 1]

\* lines 298-312: the batch of loop index i (0-based)
mini_batch(X_train, y_train, batch_size, i) ==
    LET start_idx == i * batch_size
        end_idx == start_idx + batch_size
    IN [batch_X |-> Slice(X_train, start_idx, end_idx),
        batch_y |-> Slice(y_train, start_idx, end_idx),
        ops |-> batch_ops, max_norm |-> 1]

\* lines 295-314: the batches of one epoch
mini_batches(X_train, y_train, batch_size) ==
    LET num_batches == Len(X_train) \div batch_size
    IN Array([k \in 1..num_batches |->
                 mini_batch(X_train, y_train, batch_size, k - 1)])

\* lines 290-317: the batches of every epoch the loop runs; with no full
\* batch the first epoch ends at line 316 with ZeroDivisionError
epoch_loop(X_train, y_train, batch_size, epochs) ==
    IF Len(X_train) \div batch_size = 0
    THEN [epochs |-> <<mini_batches(X_train, y_train, batch_size)>>,
          raised |-> "ZeroDivisionError"]
    ELSE [epochs |-> Array([e \in 1..epochs |->
                          mini_batches(X_train, y_train, batch_size)]),
          raised |-> ""]

\* the epoch loop of train on T training windows, window i standing for
\* itself and its label for 100 + i
CallEpochLoop(T, batch_size, epochs) ==
    /\ frame.op = "none"
    /\ LET X_train == [i \in 1..T |-> i]
           y_train == [i \in 1..T |-> 100 + i]
       IN frame' = [op |-> "epoch_loop",
                    args |-> [X_train |-> X_train, y_train |-> y_train,
                              batch_size |-> batch_size, epochs |-> epochs],
                    result |-> epoch_loop(X_train, y_train, batch_size,
                                          epochs)]
    /\ UNCHANGED program

NextBatches ==
    \E T \in 0..MaxTrainWindows, batch_size \in 1..MaxBatchSize,
       epochs \in 1..MaxEpochs : CallEpochLoop(T, batch_size, epochs)

\* the epoch loop on every number of training windows and batch size
SpecBatches == Init /\ [][NextBatches]_vars

(* ----------------------- the sentiment endpoint ----------------------- *)
\* random.randint(50, 200)
MinMentions == 50
MaxMentions == 200

\* random.uniform(0.3, 0.7) and random.uniform(0.1, 0.4), in percent
PositiveRatios == {30, 40, 50, 60, 70}
NegativeRatios == {10, 20, 30, 40}

\* int(total_mentions * ratio) for a ratio given in percent
count_of(total_mentions, ratio) == (total_mentions * ratio) \div 100

\* round(n / d, 2) in hundredths, d > 0 and n >= 0: the nearest hundredth,
\* a tie going to the even one
round2(n, d) ==
    LET q == (100 * n) \div d
        r == (100 * n) % d
    IN IF 2 * r > d \/ (2 * r = d /\ q % 2 = 1) THEN q + 1 ELSE q

\* get_sentiment(symbol) for one outcome of the stock lookup and of the
\* three random draws; the score is in hundredths
get_sentiment(found, total_mentions, positive_ratio, negative_ratio) ==
    IF ~found THEN [status |-> 404]
    ELSE LET positive_count == count_of(total_mentions, positive_ratio)
             negative_count == count_of(total_mentions, negative_ratio)
             neutral_count == total_mentions - positive_count - negative_count
             \* raw_sentiment_score = raw / total_mentions
             raw == positive_count - negative_count
         IN [status |-> 200,
             sentiment_label |->
                 IF 5 * raw > total_mentions THEN "Positive"
                 ELSE IF 5 * raw < 0 - total_mentions THEN "Negative"
                 ELSE "Neutral",
             sentiment_score |-> round2(raw + total_mentions,
                                        2 * total_mentions),
             positive_count |-> positive_count,
             negative_count |-> negative_count,
             neutral_count |-> neutral_count,
             article_count |-> total_mentions]

CallSentiment(found, total_mentions, positive_ratio, negative_ratio) ==
    /\ frame.op = "none"
    /\ frame' = [op |-> "get_sentiment",
                 args |-> [found |-> found,
                           total_mentions |-> total_mentions,
                           positive_ratio |-> positive_ratio,
                           negative_ratio |-> negative_ratio],
                 result |-> get_sentiment(found, total_mentions,
                                          positive_ratio, negative_ratio)]
    /\ UNCHANGED program

NextSentiment ==
    \E found \in BOOLEAN, total_mentions \in MinMentions..MaxMentions,
       positive_ratio \in PositiveRatios, negative_ratio \in NegativeRatios :
        CallSentiment(found, total_mentions, positive_ratio, negative_ratio)

\* GET /sentiment/{symbol} under every outcome of its random draws
SpecSentiment == Init /\ [][NextSentiment]_vars

(* ------------------------ the prediction service ---------------------- *)
\* the checkpoint a finished training run of a symbol on the full store
\* leaves
CheckpointOf(symbol) ==
    LET ps == prepare_sequences(DefaultFeatureColumns, SeqLen,
                                fetch_training_data(FullStore, symbol))
    IN _save_model([run |-> 1, steps |-> 1,
                    input_size |-> Len(DefaultFeatureColumns)],
                   ps.scaler_features, ps.scaler_target,
                   DefaultFeatureColumns)

\* what the file of a symbol can be when the service starts: not there,
\* being written by a training run, or whole
FileStates == {"missing", "partial", "whole"}

\* the models directory with each symbol's file in the given state
ModelsDir(state) ==
    LET present == {s \in Symbols : state[s] # "missing"}
    IN [path \in {ModelPath(s) : s \in present} |->
           LET s == CHOOSE t \in present : ModelPath(t) = path
           IN IF state[s] = "whole" THEN CheckpointOf(s)
              ELSE WrittenPart(CheckpointOf(s), 2)]

InitService ==
    /\ db = FullStore
    /\ \E state \in [Symbols -> FileStates] : files = ModelsDir(state)
    /\ scaler_features = NewScaler
    /\ scaler_target = NewScaler
    /\ model = NoModel
    /\ feature_columns = DefaultFeatureColumns
    /\ pc = "idle"
    /\ tr = NoTrain
    /\ runs = 0
    /\ last = NoCall
    /\ service = NoService
    /\ frame = NoFrame
    /\ manager = NewManager

\* MLPredictionService() when the import of the models module failed
\* (MODELS_AVAILABLE is False): load_models is not called
ServiceStartWithoutModels ==
    /\ service.at \in {0, Len(service_symbols) + 1}
    /\ service' = [NoService EXCEPT !.at = Len(service_symbols) + 1,
                                    !.available = FALSE]
    /\ UNCHANGED <<db, files, scaler_features, scaler_target, model,
                   feature_columns, pc, tr, runs, last>>
    /\ UNCHANGED <<frame, manager>>

\* predictor.predict(symbol) on a loaded predictor p for one output of the
\* network: the exception it raises, or the dictionary it returns.
\* fetch_dict gives no rows when the database fails (db_up is FALSE)
predict(p, store, db_up, symbol, output) ==
    LET df == IF db_up THEN fetch_training_data(store, symbol) ELSE <<>>
    IN IF model_is_none(p.model)
       THEN [error |-> "ValueError: Model not trained", value |-> <<>>]
       ELSE IF not_enough_data(df, SeqLen)
       THEN [error |-> "ValueError: Not enough data", value |-> <<>>]
       ELSE IF ~p.scaler_features.fitted \/ ~p.scaler_target.fitted
       THEN [error |-> "NotFittedError", value |-> <<>>]
       ELSE LET sd == std([i \in 1..Len(df) |-> df[i].close_price])
                prediction == InverseTransform(p.scaler_target, 1, output)
            IN [error |-> "",
                value |-> [predicted_price |-> prediction,
                           confidence_lower |->
                               confidence_lower(prediction, sd),
                           confidence_upper |->
                               confidence_upper(prediction, sd),
                           current_price |-> df[Len(df)].close_price]]

\* get_prediction letting the exception of predict through
get_prediction_uncaught(svc, store, db_up, symbol, output) ==
    LET got == [NoGot EXCEPT !.symbol = symbol,
                             !.loaded = DOMAIN svc.models]
    IN IF ~svc.available THEN [got EXCEPT !.returned = "None"]
       ELSE IF symbol \notin DOMAIN svc.models
       THEN [got EXCEPT !.returned = "None"]
       ELSE LET inner == predict(svc.models[symbol], store, db_up, symbol,
                                 output)
            IN IF inner.error # ""
               THEN [got EXCEPT !.raised = inner.error,
                                !.inner = inner.error]
               ELSE [got EXCEPT !.returned = "dict", !.value = inner.value,
                                !.inner = "returned"]

\* get_prediction(symbol) on the service svc (lines 58-75)
get_prediction(svc, store, db_up, symbol, output) ==
    LET got == [NoGot EXCEPT !.symbol = symbol,
                             !.loaded = DOMAIN svc.models]
    IN IF ~svc.available THEN [got EXCEPT !.returned = "None"]
       ELSE IF symbol \notin DOMAIN svc.models
       THEN [got EXCEPT !.returned = "None"]
       ELSE LET inner == predict(svc.models[symbol], store, db_up, symbol,
                                 output)
            IN IF inner.error # ""
               THEN [got EXCEPT !.returned = "None", !.inner = inner.error]
               ELSE [got EXCEPT !.returned = "dict", !.value = inner.value,
                                !.inner = "returned"]

\* a request reaches get_prediction once the constructor has finished
GetPrediction(symbol, db_up) ==
    /\ service.at = Len(service_symbols) + 1
    /\ \E output \in Outputs :
          service' = [service EXCEPT
              !.got = get_prediction(service, db, db_up, symbol, output)]
    /\ UNCHANGED <<db, files, scaler_features, scaler_target, model,
                   feature_columns, pc, tr, runs, last>>
    /\ UNCHANGED <<frame, manager>>

\* the symbols asked for: the service's own and one it does not know
Requested == Symbols \cup {"C"}

NextService ==
    \/ ServiceStart
    \/ ServiceStartWithoutModels
    \/ LoadModel
    \/ \E symbol \in Requested, db_up \in BOOLEAN :
          GetPrediction(symbol, db_up)

\* a serving process on a models directory that holds whole, partly
\* written and missing checkpoints
SpecService == InitService /\ [][NextService]_vars

(* ------------------------------ claims --------------------------------- *)
\* the table fetch_training_data gave for a symbol when the store held its
\* first n days
TableAt(symbol, n) ==
    fetch_training_data(
        [s \in Symbols |-> {r \in db[s] : r.price_date <= n}], symbol)

\* the errors that report too little data
DataInsufficient ==
    {"ValueError: No data available", "ValueError: Not enough data"}

\* the step is a call of predict(s): the only call that starts and ends
\* idle, leaves the store alone and reports as "predict"
PredictStep(s) ==
    /\ pc = "idle" /\ pc' = "idle" /\ db' = db
    /\ last'.op = "predict" /\ last'.symbol = s

\* C1: for a table of N >= L + 1 rows, prepare_sequences returns exactly
\* N - L windows; window w (0-based) is the scaled feature rows [w, w + L) in
\* order, and its label is the scaled close price of row w + L.  Read where
\* train holds what prepare_sequences returned, split in two, before its
\* first epoch.
C1_WindowsAndLabels ==
    (pc = "epoch" /\ tr.epoch = 0) =>
        \A df \in {TableAt(tr.symbol, tr.rows)} :
        \A X \in {tr.X_train \o tr.X_val} :
        \A y \in {tr.y_train \o tr.y_val} :
        \A rows \in {Transform(scaler_features,
                               Values(df, feature_columns))} :
        \A closes \in {Transform(scaler_target,
                                 Values(df, <<"close_price">>))} :
            /\ Len(df) >= SeqLen + 1
            /\ Len(X) = Len(df) - SeqLen
            /\ Len(y) = Len(df) - SeqLen
            /\ \A w \in 0..(Len(df) - SeqLen - 1) :
                 /\ Len(X[w + 1]) = SeqLen
                 /\ \A j \in 0..(SeqLen - 1) :
                      X[w + 1][j + 1] = rows[w + j + 1]
                 /\ y[w + 1] = closes[w + SeqLen + 1]

\* a train call holds two or more windows of a table it fetched
C1_Witness ==
    /\ pc = "epoch"
    /\ tr.epoch = 0
    /\ Len(tr.X_train) + Len(tr.X_val) >= 2
    /\ tr.rows = SeqLen + 2

\* C2: with 1 <= N <= L rows the windowing step fails with an
\* insufficient-data error that reaches the caller of train: no other error
\* ends the call.
C2_InsufficientDataSurfaced ==
    (last.op = "train" /\ last.rows >= 1 /\ last.rows <= SeqLen)
        => last.error \in DataInsufficient

\* C3: when the split leaves no training window or no validation window,
\* train raises a data-insufficiency error before any epoch runs; no epoch
\* starts and no other error (a division by zero) occurs.
C3_EmptySplitRaisesInsufficient ==
    (last.op = "train" /\ last.rows > SeqLen
       /\ (last.train_windows = 0 \/ last.val_windows = 0))
        => last.error \in DataInsufficient

\* C4: predict on a predictor whose model is None raises the
\* model-not-trained error for every symbol and every number of stored rows,
\* fetches nothing and changes nothing.
C4_UntrainedPredictRaises ==
    [][\A s \in Symbols :
          (model = NoModel /\ PredictStep(s)) =>
              /\ last'.error = "ValueError: Model not trained"
              /\ ~last'.fetched
              /\ UNCHANGED <<db, files, scaler_features, scaler_target,
                             model, feature_columns, pc, tr, runs>>]_vars

\* predict was refused on an untrained predictor although the symbol has
\* enough rows for a window
C4_Witness ==
    /\ last.op = "predict"
    /\ last.error = "ValueError: Model not trained"
    /\ model = NoModel
    /\ Cardinality(db[last.symbol]) >= SeqLen

\* C5: predict on a trained or loaded predictor raises the
\* insufficient-data error exactly when the symbol has fewer than L rows
\* (zero rows included), and not when it has L rows or more.
C5_PredictNeedsLRows ==
    [][\A s \in Symbols :
          (model # NoModel /\ PredictStep(s)) =>
              (last'.error \in DataInsufficient
                  <=> Cardinality(db[s]) < SeqLen)]_vars

\* predict succeeded on a symbol that has exactly L rows
C5_Witness ==
    /\ last.op = "predict"
    /\ last.error = ""
    /\ last.rows = SeqLen
    /\ Cardinality(db[last.symbol]) = SeqLen

\* the smallest validation loss of a non-empty list
MinLoss(losses) ==
    CHOOSE m \in {losses[i] : i \in 1..Len(losses)} :
        \A i \in 1..Len(losses) : m <= losses[i]

\* the first epoch (1-based) whose validation loss is the smallest
EarliestBest(losses) ==
    CHOOSE e \in 1..Len(losses) :
        /\ losses[e] = MinLoss(losses)
        /\ \A i \in 1..(e - 1) : losses[i] # MinLoss(losses)

\* the running train call finishes one more epoch in this step
EpochDone == pc = "epoch" /\ pc' = "epoch" /\ tr'.epoch = tr.epoch + 1

\* C6, after every epoch: the checkpoint of the symbol holds the weights
\* the network had at the end of the earliest epoch whose validation loss is
\* the minimum so far, with the scalers and columns of this run.
C6_CheckpointIsEarliestBest ==
    (pc = "epoch" /\ tr.epoch >= 1) =>
        /\ ModelPath(tr.symbol) \in DOMAIN files
        /\ files[ModelPath(tr.symbol)] =
             [model_state_dict |->
                 [model EXCEPT !.steps =
                     EarliestBest(tr.val_losses)
                         * (Len(tr.X_train) \div tr.batch_size)],
              scaler_features |-> scaler_features,
              scaler_target |-> scaler_target,
              feature_columns |-> feature_columns]

\* C6, each epoch: the checkpoint file of the symbol is written in the epoch
\* exactly when its validation loss is strictly below every earlier one of
\* the run, and no other file changes.
C6_WrittenIffStrictlyBelow ==
    EpochDone =>
        /\ (/\ ModelPath(tr.symbol) \in DOMAIN files'
            /\ (ModelPath(tr.symbol) \in DOMAIN files =>
                  files'[ModelPath(tr.symbol)] # files[ModelPath(tr.symbol)]))
           <=> (\A i \in 1..Len(tr.val_losses) :
                  tr'.val_losses[Len(tr'.val_losses)] < tr.val_losses[i])
        /\ \A q \in DOMAIN files \cup DOMAIN files' :
              q # ModelPath(tr.symbol) =>
                  q \in DOMAIN files /\ q \in DOMAIN files'
                      /\ files'[q] = files[q]

\* C6: during train the checkpoint stored for the symbol is that of the
\* earliest epoch with the minimum validation loss so far; it is written
\* exactly in the epochs whose validation loss is strictly below the best so
\* far, and in no other.
C6_BestCheckpointRetained ==
    []C6_CheckpointIsEarliestBest /\ [][C6_WrittenIffStrictlyBelow]_vars

\* three epochs are done, the second reached the minimum and the third
\* tied with it
C6_Witness ==
    /\ pc = "epoch"
    /\ tr.epoch = 3
    /\ tr.val_losses = <<2, 1, 1>>

\* C7: the metrics train returns are computed with the best checkpoint's
\* weights, also when the final epoch is not the best epoch.
C7_MetricsUseBestWeights ==
    (pc = "idle" /\ last.op = "train" /\ last.error = "") =>
        /\ ModelPath(last.symbol) \in DOMAIN files
        /\ last.metrics.weights =
               files[ModelPath(last.symbol)].model_state_dict

\* the scaled window predict builds for the first n days of a symbol under
\* a feature scaler
WindowUnder(scaler, columns, symbol, n) ==
    SubSeq(Transform(scaler, Values(TableAt(symbol, n), columns)),
           n - SeqLen + 1, n)

\* C8: the scaling predict(S) applies, to the window and to the network's
\* output, is the one stored in S's checkpoint.  Stated for a predictor
\* whose network and scalers are those of some checkpoint on disk (it
\* trained or loaded some symbol).
C8_PredictUsesOwnScaler ==
    (/\ pc = "idle" /\ last.op = "predict" /\ last.error = ""
     /\ \E p \in DOMAIN files :
           /\ files[p].model_state_dict.run = model.run
           /\ files[p].scaler_features = scaler_features
           /\ files[p].scaler_target = scaler_target)
    => /\ ModelPath(last.symbol) \in DOMAIN files
       /\ \A ck \in {files[ModelPath(last.symbol)]} :
            /\ last.X = WindowUnder(ck.scaler_features, ck.feature_columns,
                                    last.symbol, last.rows)
            /\ last.predicted_price =
                   InverseTransform(ck.scaler_target, 1,
                                    last.prediction_scaled)

\* C9: a predict call, whether it returns or raises, leaves both scalers,
\* the feature-column list, the network and the checkpoint files unchanged.
C9_PredictNeverRefits ==
    [][\A s \in Symbols :
          PredictStep(s) =>
              UNCHANGED <<scaler_features, scaler_target, feature_columns,
                          model, files>>]_vars

\* predict returned a price for a table on which a refit would have given
\* another feature scaler than the one in use
C9_Witness ==
    /\ last.op = "predict"
    /\ last.error = ""
    /\ last.rows = Cardinality(db[last.symbol])
    /\ scaler_features #
          Fit(Values(TableAt(last.symbol, last.rows), feature_columns))

\* C10, load: a predictor constructed from an existing checkpoint file has
\* the file's weights, scalers and feature columns.
C10_LoadRestores ==
    \A p \in DOMAIN files :
        (last'.op = "construct" /\ Construct(p)) =>
            /\ model' = files[p].model_state_dict
            /\ scaler_features' = files[p].scaler_features
            /\ scaler_target' = files[p].scaler_target
            /\ feature_columns' = files[p].feature_columns

\* C10, save: the files change only by train writing the file of its own
\* symbol, which then holds the saving predictor's weights, scalers and
\* feature columns; every other symbol's file is as before.
C10_SaveStores ==
    files' # files =>
        /\ pc = "epoch"
        /\ DOMAIN files' = DOMAIN files \cup {ModelPath(tr.symbol)}
        /\ files'[ModelPath(tr.symbol)].model_state_dict = model'
        /\ files'[ModelPath(tr.symbol)].scaler_features = scaler_features'
        /\ files'[ModelPath(tr.symbol)].scaler_target = scaler_target'
        /\ files'[ModelPath(tr.symbol)].feature_columns = feature_columns'
        /\ \A q \in DOMAIN files :
              q # ModelPath(tr.symbol) => files'[q] = files[q]

\* C10: a checkpoint round trip gives back the weights, both scalers and
\* the ordered feature columns of the predictor that saved it; checkpoints
\* are keyed by symbol and the last write for a symbol wins.
C10_CheckpointRoundTrip ==
    [][C10_LoadRestores /\ C10_SaveStores]_vars

\* a predictor was constructed from the checkpoint of a symbol that has
\* been written by two training runs, while another symbol's checkpoint
\* with other content is on disk
C10_Witness ==
    /\ last.op = "construct"
    /\ model # NoModel
    /\ model.run = MaxRuns
    /\ \E p, q \in DOMAIN files :
          /\ files[p].model_state_dict = model
          /\ files[q].model_state_dict.run # model.run
          /\ files[q].scaler_target # scaler_target

\* C11: a load of a symbol's checkpoint that overlaps with a training run
\* writing that symbol's checkpoint reads a whole checkpoint (the previous
\* one or the new one), never a partly written file.
C11_LoadSeesWholeCheckpoint ==
    \A s \in DOMAIN service.read : Complete(service.read[s])

(* exact arithmetic on fractions <<n, d>>, d > 0 *)
FracSub(a, b) == <<a[1] * b[2] - b[1] * a[2], a[2] * b[2]>>
FracMul(a, b) == <<a[1] * b[1], a[2] * b[2]>>
FracEq(a, b) == a[1] * b[2] = b[1] * a[2]
FracLeq(a, b) == a[1] * b[2] <= b[1] * a[2]

\* r + c * sqrt(v) >= 0, for fractions r, c and v >= 0
RootNonNeg(r, c, v) ==
    IF r[1] >= 0 /\ c[1] >= 0 THEN TRUE
    ELSE IF r[1] <= 0 /\ c[1] <= 0
    THEN r[1] = 0 /\ (c[1] = 0 \/ v[1] = 0)
    ELSE IF r[1] > 0
    THEN FracLeq(FracMul(FracMul(c, c), v), FracMul(r, r))
    ELSE FracLeq(FracMul(r, r), FracMul(FracMul(c, c), v))

\* the float is over the root of sq, or has no root part
OverRoot(x, sq) == ~x.nan /\ (x.coef[1] = 0 \/ FracEq(x.sq, sq))

\* x <= y for two floats over the root of sq
FloatLeq(x, y, sq) ==
    /\ OverRoot(x, sq) /\ OverRoot(y, sq)
    /\ RootNonNeg(FracSub(y.rat, x.rat), FracSub(y.coef, x.coef), sq)

\* y - x is coef times the root of sq
DiffIs(x, y, coef, sq) ==
    /\ OverRoot(x, sq) /\ OverRoot(y, sq)
    /\ FracEq(FracSub(y.rat, x.rat), <<0, 1>>)
    /\ FracEq(FracSub(y.coef, x.coef), coef)

\* the variance (n - 1 in the divisor) of the close prices of a table
CloseVariance(df) ==
    LET n == Len(df)
        total == Sum([i \in 1..n |-> df[i].close_price])
        squares == Sum([i \in 1..n |-> df[i].close_price * df[i].close_price])
    IN <<n * squares - total * total, n * (n - 1)>>

\* C12: a predict that returns gives an interval symmetric about the
\* predicted price: upper - predicted = predicted - lower = 1.96 times the
\* standard deviation of the fetched close prices, so that
\* lower <= predicted <= upper.
C12_SymmetricInterval ==
    (last.op = "predict" /\ last.error = "") =>
        \A sq \in {CloseVariance(TableAt(last.symbol, last.rows))} :
            /\ DiffIs(Exact(last.predicted_price), last.confidence_upper,
                      <<196, 100>>, sq)
            /\ DiffIs(last.confidence_lower, Exact(last.predicted_price),
                      <<196, 100>>, sq)
            /\ FloatLeq(last.confidence_lower, Exact(last.predicted_price),
                        sq)
            /\ FloatLeq(Exact(last.predicted_price), last.confidence_upper,
                        sq)

\* predict returned an interval of positive width
C12_Witness ==
    /\ last.op = "predict"
    /\ last.error = ""
    /\ last.rows > SeqLen
    /\ last.confidence_upper.sq[1] > 0
    /\ last.confidence_lower.coef[1] < 0

\* C13: every price predict returns after a successful training run of the
\* symbol is strictly positive, whatever the network puts out.
C13_PredictedPricePositive ==
    (/\ last.op = "predict" /\ last.error = ""
     /\ ModelPath(last.symbol) \in DOMAIN files
     /\ files[ModelPath(last.symbol)].scaler_target = scaler_target
     /\ files[ModelPath(last.symbol)].model_state_dict.run = model.run)
    => last.predicted_price[1] > 0

RECURSIVE Stale(_, _, _)
\* the consecutive epochs, up to and with epoch k, whose validation loss
\* did not improve on the smallest one before them, counted afresh after an
\* improvement and after the count has reached most
Stale(losses, k, most) ==
    IF k = 0 THEN 0
    ELSE LET before == Stale(losses, k - 1, most)
             improves == \A i \in 1..(k - 1) : losses[k] < losses[i]
         IN IF improves THEN 0
            ELSE IF before = most THEN 1 ELSE before + 1

\* the learning rate halved
Halved(lr) == <<lr[1], 2 * lr[2]>>

\* C15: the learning rate is halved at the end of the 5th consecutive epoch
\* without improvement of the validation loss, and changes at no other time
\* during training.
C15_HalvedAtFifthStaleEpoch ==
    [][EpochDone =>
          tr'.lr = IF Stale(tr'.val_losses, tr'.epoch, 5) = 5
                   THEN Halved(tr.lr) ELSE tr.lr]_vars

\* C15 as the code has it: patience = 5 lets five epochs without
\* improvement pass; the rate is halved at the end of the 6th consecutive
\* one, the count starting afresh after an improvement and after a halving,
\* and changes at no other time during training.
C15_HalvedAtSixthStaleEpoch ==
    [][/\ EpochDone =>
             tr'.lr = IF Stale(tr'.val_losses, tr'.epoch, 6) = 6
                      THEN Halved(tr.lr) ELSE tr.lr
       /\ tr'.lr # tr.lr => EpochDone \/ pc' = "idle"]_vars

\* the rate has been halved twice: after epochs 2-7 and again after epochs
\* 8-13 brought no improvement on the first epoch
C15_Witness ==
    /\ pc = "epoch"
    /\ tr.epoch = 13
    /\ tr.val_losses[1] = 1
    /\ tr.lr = Halved(Halved(DefaultLearningRate))

\* C14: a train call with epochs >= 1 that has at least one training and
\* one validation window ends only after all its epochs, without error, and
\* with a checkpoint of the symbol on disk.
C14_RunsAllEpochs ==
    [][(/\ pc = "epoch" /\ pc' = "idle"
        /\ Len(tr.X_train) >= 1 /\ Len(tr.X_val) >= 1)
       => /\ tr.epochs >= 1
          /\ tr.epoch = tr.epochs
          /\ last'.error = ""
          /\ ModelPath(tr.symbol) \in DOMAIN files']_vars

\* C16: with W windows and validation fraction v the training set is the
\* first floor(W * (1 - v)) windows and the validation set the remaining
\* tail: every training window precedes every validation window, and the two
\* together are all W windows in their order (labels alike).
C16_SplitInTimeOrder ==
    frame.op = "split" =>
        \A X \in {frame.args.X} : \A y \in {frame.args.y} :
        \A W \in {Len(frame.args.X)} :
        \A n \in {(W * (100 - frame.args.val_percent)) \div 100} :
            /\ frame.result.X_train = SubSeq(X, 1, n)
            /\ frame.result.X_val = SubSeq(X, n + 1, W)
            /\ frame.result.y_train = SubSeq(y, 1, n)
            /\ frame.result.y_val = SubSeq(y, n + 1, W)
            /\ frame.result.X_train \o frame.result.X_val = X
            /\ \A i \in 1..Len(frame.result.X_train) :
                 \A j \in 1..Len(frame.result.X_val) :
                    frame.result.X_train[i] < frame.result.X_val[j]

\* the rows before row i of a table that have a value in column c
ValidBefore(df, i, c) == {j \in 1..(i - 1) : df[j][c] # NaN}

\* C17: after filling, a missing value with an earlier valid value in its
\* column equals the nearest earlier valid value, a missing value with none
\* (a leading gap) equals 0, a value that was not missing is unchanged, and
\* no missing value remains.
C17_ForwardThenZeroFill ==
    frame.op = "fill" =>
        \A df \in {frame.args.df} : \A filled \in {frame.result} :
            /\ Len(filled) = Len(df)
            /\ \A i \in 1..Len(df) : \A c \in DOMAIN df[i] :
                 /\ filled[i][c] # NaN
                 /\ df[i][c] # NaN => filled[i][c] = df[i][c]
                 /\ (df[i][c] = NaN /\ ValidBefore(df, i, c) # {}) =>
                      \E j \in ValidBefore(df, i, c) :
                         /\ \A k \in ValidBefore(df, i, c) : k <= j
                         /\ filled[i][c] = df[j][c]
                 /\ (df[i][c] = NaN /\ ValidBefore(df, i, c) = {}) =>
                      filled[i][c] = 0

\* a column was filled that has a leading gap and, after two different
\* values, a gap in the middle
C17_Witness ==
    /\ frame.op = "fill"
    /\ Len(frame.args.df) = 4
    /\ frame.args.df[1].rsi = NaN
    /\ frame.args.df[2].rsi = 5
    /\ frame.args.df[3].rsi = 7
    /\ frame.args.df[4].rsi = NaN
    /\ frame.result[4].rsi = 7

\* C18: every RSI value calculate_technical_indicators gives that is not
\* missing is a number in [0, 100].
C18_RsiInRange ==
    frame.op = "indicators" =>
        \A i \in 1..Len(frame.result.rsi) :
            \A rsi \in {frame.result.rsi[i]} :
                ~IsNaN(rsi) =>
                    /\ rsi[2] > 0
                    /\ 0 <= rsi[1]
                    /\ rsi[1] <= 100 * rsi[2]

\* a history gave an RSI strictly between 0 and 100 on its last row and a
\* missing RSI on its 13th
C18_Witness ==
    /\ frame.op = "indicators"
    /\ Len(frame.result.rsi) >= RsiWindow
    /\ IsNaN(frame.result.rsi[RsiWindow - 1])
    /\ \A rsi \in {frame.result.rsi[Len(frame.result.rsi)]} :
          rsi[2] > 0 /\ 0 < rsi[1] /\ rsi[1] < 100 * rsi[2]

\* the close fell on none of the 14 rows that end with row i
NoLossIn(close, i) ==
    \A j \in (i - RsiWindow + 1)..i : j >= 2 => close[j] >= close[j - 1]

\* C19: on every row whose trailing average loss is zero the RSI is
\* missing: not 0, not 100, not an infinity.
C19_ZeroLossIsMissing ==
    frame.op = "indicators" =>
        \A i \in RsiWindow..Len(frame.result.rsi) :
            NoLossIn(frame.result.close_price, i)
                => IsNaN(frame.result.rsi[i])

\* the variance (n - 1 in the divisor) of a column of integers
Variance(values) ==
    LET n == Len(values)
        squares == Sum([i \in 1..n |-> values[i] * values[i]])
    IN <<n * squares - Sum(values) * Sum(values), n * (n - 1)>>

\* C20: sma_20 and the Bollinger middle band are equal on every row where
\* both are defined and both missing on the first 19 rows; from row 20 on
\* upper - middle = middle - lower = 2 times the standard deviation of the
\* last 20 closes.
C20_BandsAroundSma20 ==
    frame.op = "indicators" =>
        \A t \in {frame.result} :
        \A i \in 1..Len(t.close_price) :
            /\ i < 20 => IsNaN(t.sma_20[i]) /\ IsNaN(t.bollinger_middle[i])
            /\ (~IsNaN(t.sma_20[i]) /\ ~IsNaN(t.bollinger_middle[i]))
                  => FracEq(t.sma_20[i], t.bollinger_middle[i])
            /\ i >= 20 =>
                 \A sq \in {Variance(SubSeq(t.close_price, i - 19, i))} :
                    /\ ~IsNaN(t.bollinger_middle[i])
                    /\ DiffIs(Exact(t.bollinger_middle[i]),
                              t.bollinger_upper[i], <<2, 1>>, sq)
                    /\ DiffIs(t.bollinger_lower[i],
                              Exact(t.bollinger_middle[i]), <<2, 1>>, sq)

\* a history of 21 days whose last two rows have bands of positive width
C20_Witness ==
    /\ frame.op = "indicators"
    /\ Len(frame.result.close_price) = 21
    /\ ~frame.result.bollinger_upper[20].nan
    /\ frame.result.bollinger_upper[21].sq[1] > 0
    /\ frame.result.bollinger_lower[21].coef[1] < 0

\* C21: calculate_technical_indicators is a pure transform: the table the
\* caller passed in has the same columns and the same values after the call
C21_CallerTableUnchanged ==
    [][frame.op = "history" /\ frame'.op = "indicators"
          => frame'.args.df = frame.args.df]_vars

C23_AllOrNothing ==
    manager.last.op = "execute_transaction" =>
        /\ manager.last.raised = ""
        /\ manager.last.result \in {"True", "False"}
        /\ manager.last.result = "True" =>
               /\ manager.last.fail_at = 0
               /\ manager.last.how = "ok"
               /\ manager.committed = manager.last.before + manager.last.queries
        /\ manager.last.fail_at # 0 =>
               /\ manager.last.result = "False"
               /\ manager.committed = manager.last.before
        /\ manager.last.result = "False" =>
               manager.committed = manager.last.before

\* the last of several queries failed on a live connection, after an
\* earlier transaction had committed
C23_Witness ==
    /\ manager.last.op = "execute_transaction"
    /\ manager.last.queries = MaxQueries
    /\ manager.last.fail_at = MaxQueries
    /\ manager.last.how = "error"
    /\ manager.last.before > 0
    /\ manager.last.result = "False"

\* C24: between operations no connection is checked out: every connection
\* taken from the pool is back in it, however the operation ended, and
\* sequential use never finds the pool exhausted
C24_ConnectionsReturned ==
    /\ manager.free = PoolSize
    /\ manager.last.how # "PoolError"

\* C25: the configuration comes from the first source that is present, in
\* the order DATABASE_URL, Railway variables (MYSQLHOST), config.yaml,
\* built-in defaults; a missing or unreadable config file gives the
\* defaults
C25_ConfigPriority ==
    frame.op = "_load_config" =>
        LET env == frame.args.env
            file == frame.args.file
            result == frame.result
        IN IF env.DATABASE_URL \notin {Unset, ""}
           THEN result.raised = "" =>
                    /\ result.config.host = "url.host"
                    /\ result.config.database = <<"d", "b", "1">>
           ELSE /\ result.raised = ""
                /\ IF env.MYSQLHOST \notin {Unset, ""}
                   THEN /\ result.config.host = "railway.host"
                        /\ result.config.database \in {"app", "rail", "railway"}
                   ELSE IF file = "database"
                        THEN result.config.host = "file.host"
                   ELSE IF file = "no_database"
                        THEN DOMAIN result.config = {}
                   ELSE /\ result.config.host = "localhost"
                        /\ result.config.user = "root"
                        /\ result.config.pool_size = PoolSize

\* every source is present at once and the URL wins
C25_Witness ==
    /\ frame.op = "_load_config"
    /\ frame.args.env.DATABASE_URL = "mysql://u:p@url.host:3308/db1"
    /\ frame.args.env.MYSQLHOST = "railway.host"
    /\ frame.args.file = "database"
    /\ frame.result.raised = ""
    /\ frame.result.config.port = 3308

\* the place of an operation in the handling of a batch
Position(ops, name) == CHOOSE k \in 1..Len(ops) : ops[k] = name

\* C26: every epoch takes floor(T / B) optimizer steps, batch k (from 0)
\* holding the training windows k * B .. (k + 1) * B - 1 in table order with
\* their labels, and each batch is handled as forward pass, backward pass,
\* gradient clipping at norm 1, optimizer step
C26_FullBatchesInOrder ==
    frame.op = "epoch_loop" =>
        LET T == Len(frame.args.X_train)
            B == frame.args.batch_size
        IN \A e \in 1..Len(frame.result.epochs) :
           \E batches \in {frame.result.epochs[e]} :
              /\ Len(batches) = T \div B
              /\ \A k \in 1..Len(batches) :
                    /\ batches[k].batch_X = [j \in 1..B |-> (k - 1) * B + j]
                    /\ batches[k].batch_y
                           = [j \in 1..B |-> 100 + (k - 1) * B + j]
                    /\ Cardinality({j \in 1..Len(batches[k].ops) :
                           batches[k].ops[j] = "optimizer.step"}) = 1
                    /\ Position(batches[k].ops, "forward")
                           < Position(batches[k].ops, "backward")
                    /\ Position(batches[k].ops, "backward")
                           < Position(batches[k].ops, "clip_grad_norm_")
                    /\ Position(batches[k].ops, "clip_grad_norm_")
                           < Position(batches[k].ops, "optimizer.step")
                    /\ batches[k].max_norm = 1

\* several epochs of several batches, with windows left over at the end
C26_Witness ==
    /\ frame.op = "epoch_loop"
    /\ frame.args.batch_size = MaxBatchSize
    /\ Len(frame.args.X_train) = MaxTrainWindows
    /\ Len(frame.result.epochs) = MaxEpochs
    /\ Len(frame.result.epochs[MaxEpochs]) = MaxTrainWindows \div MaxBatchSize

\* C27: when train returns, the weights the predictor holds in memory are
\* the weights of the checkpoint on disk for that symbol
C27_MemoryMatchesCheckpoint ==
    [][(pc = "epoch" /\ pc' = "idle" /\ last'.error = "") =>
          /\ ModelPath(last'.symbol) \in DOMAIN files'
          /\ model' = files'[ModelPath(last'.symbol)].model_state_dict]_vars

\* C28: /health answers 200, healthy and connected, only when the
\* connection test succeeded, and 503 when it failed
C28_HealthReflectsConnection ==
    manager.last.op = "health_check" =>
        IF manager.last.fail_at = 0 /\ manager.last.how = "ok"
        THEN manager.last.result = "200 healthy connected"
        ELSE manager.last.result = "503"

\* C29: a sentiment response has non-negative positive, negative and
\* neutral counts that add up to article_count, and a score in [0, 1]
C29_SentimentCounts ==
    (frame.op = "get_sentiment" /\ frame.result.status = 200) =>
        /\ frame.result.positive_count >= 0
        /\ frame.result.negative_count >= 0
        /\ frame.result.neutral_count >= 0
        /\ frame.result.positive_count + frame.result.negative_count
               + frame.result.neutral_count = frame.result.article_count
        /\ frame.result.sentiment_score >= 0
        /\ frame.result.sentiment_score <= 100

\* C30: get_prediction never raises; it returns None when the models
\* module is unavailable, when no model is loaded for the symbol or when
\* predict raised, and otherwise the dictionary predict returned; it leaves
\* the set of loaded symbols as it was; and load_models loads every symbol
\* whose checkpoint is whole, whatever happened to the others
C30_GetPredictionNeverRaises ==
    /\ service.got.symbol # "" =>
          /\ service.got.raised = ""
          /\ DOMAIN service.models = service.got.loaded
          /\ IF \/ ~service.available
                \/ service.got.symbol \notin DOMAIN service.models
                \/ service.got.inner # "returned"
             THEN service.got.returned = "None"
             ELSE /\ service.got.returned = "dict"
                  /\ DOMAIN service.got.value =
                         {"predicted_price", "confidence_lower",
                          "confidence_upper", "current_price"}
    /\ (service.available /\ service.at = Len(service_symbols) + 1) =>
          \A s \in Symbols :
              (ModelPath(s) \in DOMAIN files /\ Complete(files[ModelPath(s)]))
                  => s \in DOMAIN service.models

\* the first symbol's checkpoint failed to load, the second one loaded, and
\* a request for the second one failed inside predict
C30_Witness ==
    /\ service.available
    /\ DOMAIN service.models = {service_symbols[2]}
    /\ service_symbols[1] \in DOMAIN service.read
    /\ service.got.symbol = service_symbols[2]
    /\ service.got.inner = "ValueError: Not enough data"
    /\ service.got.returned = "None"

====
